---- MODULE Spec2Model ----
(***************************************************************************)
(* Model of enhanced_ppt_server.py: the template registry, the keyword     *)
(* driven text substitution and the slide duplication tools.               *)
(*                                                                         *)
(* Text is a sequence of one-character strings, so that lower(), strip(),  *)
(* the "in" substring test and len() are computed as Python computes them. *)
(* A document is a sequence of slides, a slide a layout and a sequence of  *)
(* shapes, a shape a text frame (or none) with one font per paragraph.     *)
(***************************************************************************)
EXTENDS Integers, Sequences, FiniteSets, TLC

VARIABLES
    current_presentation,   \* the open document, or None        (line 75)
    current_filename,       \* the name it will be saved under   (line 76)
    template_registry,      \* template name -> descriptor       (line 99)
    fs,                     \* the template files and directories on disk
    last,                   \* the last tool call: its arguments, the state
                            \* it started from and what it returned
    dup_calls               \* duplication tool calls made so far

vars == <<current_presentation, current_filename, template_registry, fs, last,
          dup_calls>>

\* Python's None, where a document or a result may be absent
None == [none |-> TRUE]

\* an open Presentation: its slides, in order
Opened(doc) == [slides |-> doc]

\* current_filename = None
NoFilename == <<>>

\* ------------------------------------------------------------------ bounds
MaxDupCalls == 1    \* duplication tool calls explored in one session
MaxCount    == 2    \* largest count given to duplicate_and_update_slides
MaxTables == 1

\* ------------------------------------------------------- program constants
ChapterPt  == 18    \* Pt(18)
TitlePt    == 24    \* Pt(24)
ContentsPt == 14    \* Pt(14)
TitleMaxLen   == 50 \* len(text) < 50
ContentMinLen == 50 \* len(text) > 50

\* pptx.util.Pt: a length in English Metric Units, 12700 to the point
Pt(n) == n * 12700

\* -------------------------------------------------------------------- text
Upper == <<"A","B","C","D","E","F","G","H","I","J","K","L","M",
           "N","O","P","Q","R","S","T","U","V","W","X","Y","Z">>
Lowercase == <<"a","b","c","d","e","f","g","h","i","j","k","l","m",
               "n","o","p","q","r","s","t","u","v","w","x","y","z">>

LowerTable ==
    [c \in {Upper[i] : i \in 1..Len(Upper)} |->
        Lowercase[CHOOSE i \in 1..Len(Upper) : Upper[i] = c]]

\* str.lower(), one character
LowerChar(c) == IF c \in DOMAIN LowerTable THEN LowerTable[c] ELSE c

\* str.lower()
lower(s) == [i \in 1..Len(s) |-> LowerChar(s[i])]

Whitespace == {" ", "\n", "\t"}

RECURSIVE lstrip(_)
lstrip(s) == IF s # <<>> /\ Head(s) \in Whitespace THEN lstrip(Tail(s)) ELSE s

RECURSIVE rstrip(_)
rstrip(s) ==
    IF s # <<>> /\ s[Len(s)] \in Whitespace
    THEN rstrip(SubSeq(s, 1, Len(s) - 1))
    ELSE s

\* str.strip()
strip(s) == rstrip(lstrip(s))

\* keyword in text
Contains(text, keyword) ==
    \E i \in 0..(Len(text) - Len(keyword)) :
        \A j \in 1..Len(keyword) : text[i + j] = keyword[j]

\* any(keyword in text for keyword in keywords)
AnyIn(text, keywords) == \E k \in 1..Len(keywords) : Contains(text, keywords[k])

\* str.endswith
EndsWith(s, suffix) ==
    /\ Len(suffix) <= Len(s)
    /\ SubSeq(s, Len(s) - Len(suffix) + 1, Len(s)) = suffix

\* str(n) for the small numbers the tools format
Digits == <<"0","1","2","3","4","5","6","7","8","9">>

RECURSIVE IntToStr(_)
IntToStr(n) ==
    IF n < 10 THEN <<Digits[n + 1]>>
    ELSE IntToStr(n \div 10) \o <<Digits[(n % 10) + 1]>>

KwChapter  == <<"c","h","a","p","t","e","r">>
KwChap     == <<"c","h","a","p">>
KwTitle    == <<"t","i","t","l","e">>
KwContents == <<"c","o","n","t","e","n","t","s">>
KwContent  == <<"c","o","n","t","e","n","t">>

\* number of paragraphs text_frame.text = value makes: one per line
RECURSIVE Newlines(_)
Newlines(s) ==
    IF s = <<>> THEN 0
    ELSE (IF Head(s) = "\n" THEN 1 ELSE 0) + Newlines(Tail(s))

ParagraphCount(value) == Newlines(value) + 1

\* --------------------------------------------------- texts of the examples
TxtChapterX == <<"C","h","a","p","t","e","r"," ","X">>
TxtTitleHere == <<"T","i","t","l","e"," ","H","e","r","e">>
TxtContentsHere == <<"C","o","n","t","e","n","t","s"," ","H","e","r","e">>
TxtChapterTitle == <<"C","h","a","p","t","e","r"," ","T","i","t","l","e">>
TxtNotes == <<"N","o","t","e","s">>
TxtSubtitle == <<"S","u","b","t","i","t","l","e">>
TxtTitleOfContents == <<"T","i","t","l","e"," ","o","f"," ","C","o","n","t","e","n","t","s">>
ValIntro == <<"I","n","t","r","o">>
ValOverview == <<"O","v","e","r","v","i","e","w">>
ValBody == <<"L","1","\n","L","2">>
NameSample == <<"S","a","m","p","l","e">>
NameMixed == <<"M","i","x","e","d">>
NameLong == <<"L","o","n","g">>
NameBroken == <<"B","r","o","k","e","n">>
NameNope == <<"N","o","p","e">>
NameDeck == <<"d","e","c","k">>
ExtPptx == <<".","p","p","t","x">>
ExtPotx == <<".","p","o","t","x">>
ExtTxt == <<".","t","x","t">>
StrUpdated == <<"_","u","p","d","a","t","e","d","_">>
TxtChapter == <<"C","h","a","p","t","e","r">>
TxtSpaceOne == <<" ","1">>
TxtLowerChapter == <<"c","h","a","p","t","e","r"," ","n","o","t","e","s">>
NameTheme == <<"T","h","e","m","e">>
NameReadme == <<"R","e","a","d","m","e">>


\* str.split("\n"): the lines of a text
RECURSIVE Lines(_)
Lines(s) ==
    IF \A i \in 1..Len(s) : s[i] # "\n" THEN <<s>>
    ELSE LET n == CHOOSE i \in 1..Len(s) :
                      s[i] = "\n" /\ \A j \in 1..(i - 1) : s[j] # "\n"
         IN <<SubSeq(s, 1, n - 1)>> \o Lines(SubSeq(s, n + 1, Len(s)))

\* ------------------------------------------------------------------ shapes
DefaultFont == [name |-> "inherit", size |-> 0]

\* a colour that no one set: the run takes the theme's
NoColor == [status |-> "inherit"]

\* a run as a text frame makes it: no colour of its own, not bold
Run(text) == [text |-> text, color |-> NoColor, bold |-> FALSE]

\* the runs text_frame.text = value leaves: one for every line that is not
\* empty, in order
RunsOf(value) ==
    LET NonEmpty(line) == line # <<>>
        kept == SelectSeq(Lines(value), NonEmpty)
    IN [j \in 1..Len(kept) |-> Run(kept[j])]

\* a shape with a text frame holding `text`, fonts as the template left them
TextShape(ph, text) ==
    [has_text_frame |-> TRUE, ph |-> ph, text |-> text,
     fonts |-> [p \in 1..ParagraphCount(text) |-> DefaultFont],
     runs |-> RunsOf(text)]

\* a one-paragraph text shape whose text the template split into two runs
TwoRunShape(ph, first, second) ==
    [has_text_frame |-> TRUE, ph |-> ph, text |-> first \o second,
     fonts |-> <<DefaultFont>>, runs |-> <<Run(first), Run(second)>>]

TextBox(text) == TextShape("none", text)

\* a picture: no text frame
Picture ==
    [has_text_frame |-> FALSE, ph |-> "none", text |-> <<>>, fonts |-> <<>>,
     runs |-> <<>>]

\* an assignment that sets the fonts and leaves the text
SetText_KeepText(shape, value, pt) ==
    [shape EXCEPT !.fonts = [p \in 1..ParagraphCount(shape.text) |->
                                [name |-> "Pretendard", size |-> Pt(pt)]]]

\* shape.text_frame.text = value; then every paragraph gets the font
SetText(shape, value, pt) ==
    [shape EXCEPT !.text = value,
                  !.fonts = [p \in 1..ParagraphCount(value) |->
                                [name |-> "Pretendard", size |-> Pt(pt)]],
                  !.runs = RunsOf(value)]

\* ------------------------------------------------------------ substitution
\* SmartBranch with the "if chapter_text:" tests left out
SmartBranch_NoValueTest(shape, chapter_text, title_text, contents_text) ==
    IF ~shape.has_text_frame THEN 0
    ELSE LET text == lower(strip(shape.text)) IN
         IF AnyIn(text, <<KwChapter, KwChap>>) THEN 1
         ELSE IF AnyIn(text, <<KwTitle>>) THEN 2
         ELSE IF AnyIn(text, <<KwContents, KwContent>>) THEN 3
         ELSE 0

\* SmartBranch with each value tested together with its keyword, so that an
\* empty value lets the next keyword have the shape
SmartBranch_ValueFirst(shape, chapter_text, title_text, contents_text) ==
    IF ~shape.has_text_frame THEN 0
    ELSE LET text == lower(strip(shape.text)) IN
         IF AnyIn(text, <<KwChapter, KwChap>>) /\ chapter_text # <<>> THEN 1
         ELSE IF AnyIn(text, <<KwTitle>>) /\ title_text # <<>> THEN 2
         ELSE IF AnyIn(text, <<KwContents, KwContent>>) /\ contents_text # <<>> THEN 3
         ELSE 0

\* one shape of update_presentation_with_smart_text's walk (lines 142-171):
\* the keyword decides the branch, the value is tested inside the branch.
\* 0: the shape is left alone, 1: chapter, 2: title, 3: contents
SmartBranch(shape, chapter_text, title_text, contents_text) ==
    IF ~shape.has_text_frame THEN 0
    ELSE LET text == lower(strip(shape.text)) IN
         IF AnyIn(text, <<KwChapter, KwChap>>)
         THEN (IF chapter_text # <<>> THEN 1 ELSE 0)
         ELSE IF AnyIn(text, <<KwTitle>>)
         THEN (IF title_text # <<>> THEN 2 ELSE 0)
         ELSE IF AnyIn(text, <<KwContents, KwContent>>)
         THEN (IF contents_text # <<>> THEN 3 ELSE 0)
         ELSE 0

\* the assignments of a branch (lines 149-152, 158-161, 167-170)
ApplyBranch(shape, b, chapter, title, contents) ==
    IF b = 1 THEN SetText(shape, chapter, ChapterPt)
    ELSE IF b = 2 THEN SetText(shape, title, TitlePt)
    ELSE IF b = 3 THEN SetText(shape, contents, ContentsPt)
    ELSE shape

\* 0 when update_specific_slide_text leaves the shape (lines 890-916), else
\* the branch taken: keyword and value are tested together in each branch
SpecificBranch(shape, chapter, title, contents) ==
    IF ~shape.has_text_frame THEN 0
    ELSE LET text == lower(strip(shape.text)) IN
         IF AnyIn(text, <<KwChapter, KwChap>>) /\ chapter # <<>> THEN 1
         ELSE IF AnyIn(text, <<KwTitle>>) /\ title # <<>> THEN 2
         ELSE IF AnyIn(text, <<KwContents, KwContent>>) /\ contents # <<>> THEN 3
         ELSE 0


\* presentation.slides[index]: Python's indexing, from 0, a negative index
\* counting from the end (lines 500, 621, 886)
SlideAt(doc, index) == IF index >= 0 THEN doc[index + 1] ELSE doc[Len(doc) + index + 1]

\* shapes visited before shape i of slide s, in the walk's order
RECURSIVE ShapesBefore(_, _)
ShapesBefore(doc, s) ==
    IF s <= 1 THEN 0 ELSE ShapesBefore(doc, s - 1) + Len(doc[s - 1].shapes)

WalkIndex(doc, s, i) == ShapesBefore(doc, s) + i

ShapeCount(doc) == ShapesBefore(doc, Len(doc) + 1)

\* the shape positions of a document
Positions(doc) ==
    UNION {{<<s, i>> : i \in 1..Len(doc[s].shapes)} : s \in 1..Len(doc)}

\* a walk that goes on after the document store raised
Reached_Always(fault, k) == TRUE

\* the walk reaches a shape unless the document store raised at an earlier
\* visit or at this one (fault = 0: it never raises)
Reached(fault, k) == fault = 0 \/ k < fault

\* update_presentation_with_smart_text (lines 134-183): the document after
\* the walk, and the result it returns
SmartDoc(doc, chapter_text, title_text, contents_text, fault) ==
    [s \in 1..Len(doc) |->
        [doc[s] EXCEPT !.shapes =
            [i \in 1..Len(doc[s].shapes) |->
                IF Reached(fault, WalkIndex(doc, s, i))
                THEN ApplyBranch(doc[s].shapes[i],
                         SmartBranch(doc[s].shapes[i], chapter_text, title_text, contents_text),
                         chapter_text, title_text, contents_text)
                ELSE doc[s].shapes[i]]]]

SmartResult(doc, chapter_text, title_text, contents_text, fault) ==
    IF fault = 0
    THEN [status |-> "success",
          modified_count |-> Cardinality({p \in Positions(doc) :
              SmartBranch(doc[p[1]].shapes[p[2]], chapter_text, title_text, contents_text) # 0}),
          error_message |-> None]
    ELSE [status |-> "failure", modified_count |-> 0, error_message |-> "fault"]

\* a walk that takes the slide's branches to the shapes of every slide
SpecificDoc_EverySlide(doc, slide_number, chapter, title, contents, fault) ==
    [s \in 1..Len(doc) |->
        [doc[s] EXCEPT !.shapes =
            [i \in 1..Len(doc[s].shapes) |->
                IF Reached(fault, i)
                THEN ApplyBranch(doc[s].shapes[i],
                         SpecificBranch(doc[s].shapes[i], chapter, title, contents),
                         chapter, title, contents)
                ELSE doc[s].shapes[i]]]]

\* the walk of update_specific_slide_text over slide n (lines 886-916)
SpecificDoc(doc, slide_number, chapter, title, contents, fault) ==
    LET slide == SlideAt(doc, slide_number - 1) IN
    [doc EXCEPT ![slide_number].shapes =
        [i \in 1..Len(slide.shapes) |->
            IF Reached(fault, i)
            THEN ApplyBranch(slide.shapes[i],
                     SpecificBranch(slide.shapes[i], chapter, title, contents),
                     chapter, title, contents)
            ELSE slide.shapes[i]]]

SpecificResult(doc, slide_number, chapter, title, contents, fault) ==
    LET slide == SlideAt(doc, slide_number - 1) IN
    IF fault = 0
    THEN [status |-> "updated",
          modified_count |-> Cardinality({i \in 1..Len(slide.shapes) :
              SpecificBranch(slide.shapes[i], chapter, title, contents) # 0})]
    ELSE [status |-> "error"]

\* a text of n characters holding no keyword
Filler(n) == [i \in 1..n |-> "x"]

\* --------------------------------------------------------------- documents
\* the placeholders of a slide layout that slides.add_slide(layout) clones
\* onto the slide it makes (lines 502, 1088-1091, 1107-1113)
LayoutPlaceholders(layout) ==
    IF layout = "title_only" THEN <<"title">>
    ELSE IF layout = "title_and_content" THEN <<"title", "body">>
    ELSE IF layout = "title_slide" THEN <<"title", "subtitle">>
    ELSE <<>>

Slide(layout, shapes) == [layout |-> layout, shapes |-> shapes]

\* the template of the end-to-end scenario
SampleDoc ==
    <<Slide("blank", <<TextBox(TxtChapterX), TextBox(TxtTitleHere), TextBox(TxtContentsHere)>>)>>

MixedDoc ==
    <<Slide("title_only", <<TextShape("title", TxtChapterTitle), Picture, TextBox(TxtNotes)>>),
      Slide("blank", <<TextBox(TxtSubtitle), TextBox(TxtTitleOfContents)>>)>>

LongDoc ==
    <<Slide("blank", <<TextBox(Filler(TitleMaxLen)), TextBox(Filler(ContentMinLen + 1))>>)>>

\* a deck with a titled slide, a slide with chapter texts and no title, and
\* a slide whose title placeholder is empty
ThemeDeck ==
    <<Slide("title_only", <<TextShape("title", ValOverview),
                            TwoRunShape("none", TxtChapter, TxtSpaceOne)>>),
      Slide("blank", <<TextBox(TxtChapterX), TextBox(TxtLowerChapter)>>),
      Slide("title_only", <<TextShape("title", <<>>), Picture>>)>>

\* -------------------------------------------------------------- filesystem
\* TEMPLATE_PATHS, in the order its items() are visited (lines 83-88)
TEMPLATE_PATHS == <<"common_templates", "public_documents", "desktop_templates", "shared_drive">>

Locations == {TEMPLATE_PATHS[i] : i \in 1..Len(TEMPLATE_PATHS)}

File(location, stem, extension) ==
    [location |-> location, stem |-> stem, extension |-> extension]

\* the files that may be on disk, in the order a directory lists them
FileOrder ==
    <<File("common_templates", NameSample, ExtPptx),
      File("common_templates", NameMixed, ExtPptx),
      File("common_templates", NameMixed, ExtPotx),
      File("public_documents", NameReadme, ExtTxt),
      File("desktop_templates", NameBroken, ExtPptx),
      File("desktop_templates", NameMixed, ExtPptx),
      File("shared_drive", NameLong, ExtPptx),
      File("public_documents", NameTheme, ExtPptx)>>

\* the template of the themed deck: it stays where it is
ThemeFile == File("public_documents", NameTheme, ExtPptx)

\* the files that come and go
FileUniverse == {FileOrder[i] : i \in 1..Len(FileOrder)} \ {ThemeFile}

\* what Presentation(path) yields for a file: None when it raises
Content(f) ==
    IF f = File("common_templates", NameSample, ExtPptx) THEN Opened(SampleDoc)
    ELSE IF f = File("common_templates", NameMixed, ExtPptx) THEN Opened(SampleDoc)
    ELSE IF f = File("desktop_templates", NameMixed, ExtPptx) THEN Opened(MixedDoc)
    ELSE IF f = File("shared_drive", NameLong, ExtPptx) THEN Opened(LongDoc)
    ELSE IF f = ThemeFile THEN Opened(ThemeDeck)
    ELSE None

Reverse(seq) == [i \in 1..Len(seq) |-> seq[Len(seq) + 1 - i]]

\* list(path.glob("*" + extension)): the matching files of a directory, in
\* the order the operating system lists them (either way round)
Glob(disk, location, extension, rev) ==
    LET Match(f) == /\ f \in disk.files
                    /\ f.location = location
                    /\ f.extension = extension
        listed == SelectSeq(FileOrder, Match)
    IN IF rev THEN Reverse(listed) ELSE listed

\* ---------------------------------------------------------------- registry
EmptyRegistry == [n \in {} |-> None]

\* template_registry[template_name] = {...} (lines 110-116)
Descriptor(f, location_name) ==
    [path |-> f, location |-> location_name, name |-> f.stem, extension |-> f.extension]

\* an assignment that keeps the entry a name already has
Put_KeepFirst(registry, key, value) ==
    [k \in DOMAIN registry \cup {key} |->
        IF k \in DOMAIN registry THEN registry[k] ELSE value]

\* template_registry[template_name] = value
Put(registry, key, value) ==
    [k \in DOMAIN registry \cup {key} |-> IF k = key THEN value ELSE registry[k]]

\* the inner loop (lines 109-116)
RECURSIVE RegisterAll(_, _, _)
RegisterAll(registry, templates, location_name) ==
    IF templates = <<>> THEN registry
    ELSE RegisterAll(Put(registry, Head(templates).stem,
                         Descriptor(Head(templates), location_name)),
                     Tail(templates), location_name)

\* path.exists() or path.glob() raises OSError for a search directory the
\* process may not read (lines 107-108): discover_templates raises
ScanRaises(disk) == disk.unreadable # {}

\* the outer loop from the i-th search path on (lines 106-108); it is
\* abandoned at the first directory that raises
RECURSIVE ScanFrom(_, _, _, _)
ScanFrom(registry, disk, i, rev) ==
    IF i > Len(TEMPLATE_PATHS) THEN registry
    ELSE IF TEMPLATE_PATHS[i] \in disk.unreadable THEN registry
    ELSE LET location_name == TEMPLATE_PATHS[i]
             templates == Glob(disk, location_name, ExtPptx, rev)
                          \o Glob(disk, location_name, ExtPotx, rev)
         IN ScanFrom(IF location_name \in disk.dirs
                     THEN RegisterAll(registry, templates, location_name)
                     ELSE registry,
                     disk, i + 1, rev)

\* the scan without its reset: it adds to what was registered
ResetRegistry_Keep(registry) == registry

\* template_registry = {} (line 104): the scan discards what was registered
ResetRegistry(registry) == EmptyRegistry

\* discover_templates (lines 101-118), run on the registry as it is
discover_templates(registry, disk, rev) == ScanFrom(ResetRegistry(registry), disk, 1, rev)

\* a lookup that scans whatever the registry holds
NeedsScan_Always(registry) == TRUE

\* "if not template_registry:" (lines 456, 825, 933): the convenience tools
\* scan before the lookup when the registry is empty
NeedsScan(registry) == DOMAIN registry = {}

\* load_template_presentation (lines 120-132)
load_template_presentation(registry, disk, template_name) ==
    IF template_name \notin DOMAIN registry THEN None
    ELSE LET template_path == registry[template_name].path IN
         IF template_path \in disk.files THEN Content(template_path) ELSE None

\* ------------------------------------------------------------- duplication
\* the branch duplicate_slide takes for a shape of the new slide (lines
\* 521-548); 0: the shape is left alone, 1: chapter, 2: title, 3: content
DupBranch(shape, new_title, new_content, new_chapter) ==
    IF ~shape.has_text_frame THEN 0
    ELSE LET text == lower(shape.text) IN
         IF new_chapter # <<>> /\ (Contains(text, KwChapter) \/ Contains(text, KwChap))
         THEN 1
         ELSE IF new_title # <<>> /\ (Contains(text, KwTitle) \/ Len(text) < TitleMaxLen)
         THEN 2
         ELSE IF new_content # <<>> /\ (Contains(text, KwContent) \/ Len(text) > ContentMinLen)
         THEN 3
         ELSE 0

\* slides.add_slide(slide_layout): the new slide starts with the layout's
\* placeholders, each an empty text frame (line 502)
AddSlide(layout) ==
    Slide(layout, [j \in 1..Len(LayoutPlaceholders(layout)) |->
                      TextShape(LayoutPlaceholders(layout)[j], <<>>)])

\* the copy loop (lines 505-513): every source shape whose deepcopy does
\* not raise is appended to the new slide, in order
CopyShapes(source_slide, new_slide, uncopyable) ==
    LET Copied(i) == i \notin uncopyable
        kept == SelectSeq([i \in 1..Len(source_slide.shapes) |-> i], Copied)
    IN [new_slide EXCEPT !.shapes =
           @ \o [j \in 1..Len(kept) |-> source_slide.shapes[kept[j]]]]

\* the update loop over the new slide (lines 519-548)
UpdateNewSlide(new_slide, new_title, new_content, new_chapter) ==
    IF new_title # <<>> \/ new_content # <<>> \/ new_chapter # <<>>
    THEN [new_slide EXCEPT !.shapes =
            [i \in 1..Len(new_slide.shapes) |->
                ApplyBranch(new_slide.shapes[i],
                    DupBranch(new_slide.shapes[i], new_title, new_content, new_chapter),
                    new_chapter, new_title, new_content)]]
    ELSE new_slide

UpdatedElements(new_slide, new_title, new_content, new_chapter) ==
    IF new_title # <<>> \/ new_content # <<>> \/ new_chapter # <<>>
    THEN Cardinality({i \in 1..Len(new_slide.shapes) :
            DupBranch(new_slide.shapes[i], new_title, new_content, new_chapter) # 0})
    ELSE 0

\* the range test without its lower bound
ValidSlideNumber_NoLowerBound(doc, slide_number) == ~(slide_number > Len(doc))

\* whether slide_number passes the range test (line 497)
ValidSlideNumber(doc, slide_number) ==
    ~(slide_number < 1 \/ slide_number > Len(doc))

\* a duplication whose new shapes are the source's own, not copies of them:
\* what is written into the new slide shows in the source slide as well
DupDoc_SharedShapes(doc, slide_number, new_title, new_content, new_chapter, uncopyable) ==
    IF ~ValidSlideNumber(doc, slide_number) THEN doc
    ELSE LET source_slide == SlideAt(doc, slide_number - 1)
             new_slide == CopyShapes(source_slide, AddSlide(source_slide.layout), uncopyable)
             shared == UpdateNewSlide(source_slide, new_title, new_content, new_chapter)
         IN Append([doc EXCEPT ![slide_number] = shared],
                   UpdateNewSlide(new_slide, new_title, new_content, new_chapter))

\* duplicate_slide on an open document (lines 495-554): the document after
DupDoc(doc, slide_number, new_title, new_content, new_chapter, uncopyable) ==
    IF ~ValidSlideNumber(doc, slide_number) THEN doc
    ELSE LET source_slide == SlideAt(doc, slide_number - 1)
             new_slide == CopyShapes(source_slide, AddSlide(source_slide.layout), uncopyable)
         IN Append(doc, UpdateNewSlide(new_slide, new_title, new_content, new_chapter))

\* ... and the message it returns
DupResult(doc, slide_number, new_title, new_content, new_chapter, uncopyable) ==
    IF ~ValidSlideNumber(doc, slide_number)
    THEN [status |-> "invalid", low |-> 1, high |-> Len(doc)]
    ELSE LET source_slide == SlideAt(doc, slide_number - 1)
             new_slide == CopyShapes(source_slide, AddSlide(source_slide.layout), uncopyable)
         IN [status |-> "duplicated", slide_number |-> slide_number,
             slide_count |-> Len(doc) + 1,
             updated_elements |->
                 UpdatedElements(new_slide, new_title, new_content, new_chapter)]

\* data.get(key, default) on a slide_data entry (lines 596-598)
Get(data, key, default) == IF key \in DOMAIN data THEN data[key] ELSE default

StrSlide   == <<"S","l","i","d","e"," ">>
StrContent == <<"C","o","n","t","e","n","t"," ">>
StrChapter == <<"C","h","a","p","t","e","r"," ">>

EmptyEntry == [k \in {} |-> <<>>]

\* the loop's call with the placeholders numbered by the round, i + 1
DupManyCall_RoundNumber(i, slide_data) ==
    LET data == IF i < Len(slide_data) THEN slide_data[i + 1] ELSE EmptyEntry
    IN [slide_number |-> 1,
        new_title   |-> Get(data, "title",   StrSlide   \o IntToStr(i + 1)),
        new_content |-> Get(data, "content", StrContent \o IntToStr(i + 1)),
        new_chapter |-> Get(data, "chapter", StrChapter \o IntToStr(i + 1))]

\* the arguments of the i-th call (i from 0) of duplicate_and_update_slides'
\* loop (lines 595-600)
DupManyCall(i, slide_data) ==
    LET data == IF i < Len(slide_data) THEN slide_data[i + 1] ELSE EmptyEntry
    IN [slide_number |-> 1,
        new_title   |-> Get(data, "title",   StrSlide   \o IntToStr(i + 2)),
        new_content |-> Get(data, "content", StrContent \o IntToStr(i + 2)),
        new_chapter |-> Get(data, "chapter", StrChapter \o IntToStr(i + 2))]

\* the calls of the loop from its i-th round on (line 594)
RECURSIVE DupManyCalls(_, _, _)
DupManyCalls(i, count, slide_data) ==
    IF i >= count THEN <<>>
    ELSE <<DupManyCall(i, slide_data)>> \o DupManyCalls(i + 1, count, slide_data)

\* the document after these calls of duplicate_slide, made in order
RECURSIVE DupManyDoc(_, _, _)
DupManyDoc(doc, calls, uncopyable) ==
    IF calls = <<>> THEN doc
    ELSE LET c == Head(calls) IN
         DupManyDoc(DupDoc(doc, c.slide_number, c.new_title, c.new_content,
                           c.new_chapter, uncopyable),
                    Tail(calls), uncopyable)

\* ... and the results they return, in order
RECURSIVE DupManyResults(_, _, _)
DupManyResults(doc, calls, uncopyable) ==
    IF calls = <<>> THEN <<>>
    ELSE LET c == Head(calls) IN
         <<DupResult(doc, c.slide_number, c.new_title, c.new_content,
                     c.new_chapter, uncopyable)>>
         \o DupManyResults(DupDoc(doc, c.slide_number, c.new_title, c.new_content,
                                  c.new_chapter, uncopyable),
                           Tail(calls), uncopyable)

\* ------------------------------------------------------------------ inputs
\* ------------------------------------------------------------------ colour
HexDigits == <<"0","1","2","3","4","5","6","7","8","9","a","b","c","d","e","f">>

IsHexDigit(c) == \E i \in 1..Len(HexDigits) : HexDigits[i] = LowerChar(c)

HexDigitValue(c) == (CHOOSE i \in 1..Len(HexDigits) : HexDigits[i] = LowerChar(c)) - 1

\* s[a:b], Python's slice for 0 <= a <= b: it stops at the end of s
Slice(s, a, b) ==
    IF a >= Len(s) THEN <<>>
    ELSE SubSeq(s, a + 1, IF b < Len(s) THEN b ELSE Len(s))

RECURSIVE HexValue(_)
HexValue(digits) ==
    IF digits = <<>> THEN 0
    ELSE 16 * HexValue(SubSeq(digits, 1, Len(digits) - 1))
         + HexDigitValue(digits[Len(digits)])

\* int(s, 16) for a slice of at most two characters: surrounding white
\* space is dropped, one sign is allowed, then one or more hex digits of
\* either case; anything else raises ValueError.  (A "0x" prefix or an
\* underscore needs three characters to be accepted.)
int16(s) ==
    LET t == strip(s)
        signed == t # <<>> /\ Head(t) \in {"+", "-"}
        digits == IF signed THEN Tail(t) ELSE t
    IN IF digits # <<>> /\ \A i \in 1..Len(digits) : IsHexDigit(digits[i])
       THEN [ok |-> TRUE,
             value |-> IF signed /\ Head(t) = "-" THEN 0 - HexValue(digits)
                       ELSE HexValue(digits)]
       ELSE [ok |-> FALSE, value |-> 0]

\* RGBColor(r, g, b): raises ValueError unless each is in 0..255
RGBColor(r, g, b) ==
    IF \A v \in {r, g, b} : v >= 0 /\ v <= 255
    THEN [status |-> "color", r |-> r, g |-> g, b |-> b]
    ELSE [status |-> "ValueError"]

\* the leading "#" kept
StripHash_Keep(color_str) == color_str

\* "if color_str.startswith('#'): color_str = color_str[1:]" (lines 375-376)
StripHash(color_str) ==
    IF color_str # <<>> /\ Head(color_str) = "#" THEN Tail(color_str) ELSE color_str

\* parse_notion_color (lines 373-382): the colour, or the ValueError raised
parse_notion_color(color_str) ==
    LET h == StripHash(color_str)
        r == int16(Slice(h, 0, 2))
        g == int16(Slice(h, 2, 4))
        b == int16(Slice(h, 4, 6))
    IN IF r.ok /\ g.ok /\ b.ok THEN RGBColor(r.value, g.value, b.value)
       ELSE [status |-> "ValueError"]

\* the colour strings offered: an optional "#", three pieces that are mostly
\* two hex digits of either case, and sometimes something after them
ColorPairs ==
    {<<"1","E">>, <<"3","A">>, <<"8","A">>, <<"0","0">>, <<"f","F">>, <<"9","c">>,
     <<"g","1">>, <<" ","7">>, <<"-","1">>}

ColorLastPieces == ColorPairs \cup {<<>>, <<"5">>, <<"z">>}

ColorTails == {<<>>, <<"F">>, <<"z","z">>}

ColorStrings ==
    {prefix \o a \o b \o c \o tail :
        prefix \in {<<>>, <<"#">>, <<"#","#">>}, a \in ColorPairs, b \in {<<"3","A">>, <<"d","B">>, <<"4">>, <<>>},
        c \in ColorLastPieces, tail \in ColorTails}

\* slide.shapes.title: the position of the slide's title placeholder, 0 when
\* it has none
TitleIndex(slide) ==
    IF \E i \in 1..Len(slide.shapes) : slide.shapes[i].ph = "title"
    THEN CHOOSE i \in 1..Len(slide.shapes) :
            /\ slide.shapes[i].ph = "title"
            /\ \A j \in 1..(i - 1) : slide.shapes[j].ph # "title"
    ELSE 0

\* "if slide.shapes.title: slide.shapes.title.text = title" on the first
\* slide (lines 949-952, 1090-1091): the text is replaced, no font is set
SetTitle(doc, title) ==
    IF Len(doc) = 0 \/ TitleIndex(doc[1]) = 0 THEN doc
    ELSE [doc EXCEPT ![1].shapes[TitleIndex(doc[1])] =
             TextShape("title", title)]

\* ------------------------------------------------------------------- theme
\* every run of the shape in the colour, bold (lines 699-702)
PaintAll(shape, color) ==
    [shape EXCEPT !.runs = [j \in 1..Len(shape.runs) |->
                               [shape.runs[j] EXCEPT !.color = color, !.bold = TRUE]]]

\* the runs of the shape whose own text holds "Chapter" in the colour, bold,
\* when the shape's text holds "Chapter" (lines 707-714)
PaintChapter(shape, color) ==
    IF shape.has_text_frame /\ Contains(shape.text, TxtChapter)
    THEN [shape EXCEPT !.runs = [j \in 1..Len(shape.runs) |->
             IF Contains(shape.runs[j].text, TxtChapter)
             THEN [shape.runs[j] EXCEPT !.color = color, !.bold = TRUE]
             ELSE shape.runs[j]]]
    ELSE shape

\* the title branch fires on a slide (lines 696-698)
TitleBranch(slide) ==
    TitleIndex(slide) # 0 /\ slide.shapes[TitleIndex(slide)].has_text_frame

\* the theme counting every slide on which it coloured something
ThemeCount_AnyBranch(doc) ==
    Cardinality({n \in 1..Len(doc) :
        \/ TitleBranch(doc[n])
        \/ \E i \in 1..Len(doc[n].shapes) :
               PaintChapter(doc[n].shapes[i], NoColor) # doc[n].shapes[i]})

\* theme_applied_count (lines 692, 703)
ThemeCount(doc) == Cardinality({n \in 1..Len(doc) : TitleBranch(doc[n])})

\* one slide of apply_color_theme's loop (lines 694-714): the title first,
\* then the chapter texts
ThemeSlide(slide, main_color, accent_color) ==
    LET titled == IF TitleBranch(slide)
                  THEN [slide EXCEPT !.shapes[TitleIndex(slide)] =
                            PaintAll(@, main_color)]
                  ELSE slide
    IN [titled EXCEPT !.shapes = [i \in 1..Len(titled.shapes) |->
                                     PaintChapter(titled.shapes[i], accent_color)]]

ThemeDoc(doc, main_color, accent_color) ==
    [n \in 1..Len(doc) |-> ThemeSlide(doc[n], main_color, accent_color)]

\* the defaults of color_palette.get (lines 689-690)
DefaultMain   == <<"#","1","E","3","A","8","A">>
DefaultAccent == <<"#","F","9","7","3","1","6">>

\* the palettes offered: complete, without 'accent', without 'main', with a
\* colour that does not parse, and a second complete one
Palettes ==
    {[main |-> DefaultMain, accent |-> DefaultAccent],
     [main |-> <<"0","0","f","f","F","F">>, accent |-> DefaultMain],
     [main |-> DefaultMain],
     [accent |-> DefaultAccent],
     [main |-> <<"#","1","E","3","A">>, accent |-> DefaultAccent]}

ChapterValues  == {<<>>, ValIntro}
PresentationTitles == {ValOverview}
TitleValues    == {<<>>, ValOverview}
ContentsValues == {<<>>, ValBody}
TemplateNames  == {NameSample, NameMixed, NameBroken, NameNope}
FilenameValues == {<<>>, NameDeck}

\* datetime.datetime.now().strftime(...) (line 851)
Timestamp == <<"T","S">>

\* the slide_data lists offered: shorter than, as long as and longer than
\* the counts offered
SlideDataValues ==
    {<<>>,
     <<[title |-> ValOverview]>>,
     <<[title |-> <<>>, content |-> ValBody, chapter |-> ValIntro], EmptyEntry>>,
     <<[title |-> ValOverview], EmptyEntry,
       [title |-> <<>>, content |-> ValBody, chapter |-> ValIntro]>>}

\* the sets of source shapes whose copy may raise in one call: none, or one
UncopyableSets(slide) == {{}} \cup {{i} : i \in 1..Len(slide.shapes)}

\* where the document store may raise during a walk over n shapes: nowhere
\* (0), or at the visit of the second shape
FaultPoints(n) == {0} \cup ({2} \cap (1..n))

\* the files on disk when the server starts
StartupFiles == FileUniverse \ {File("shared_drive", NameLong, ExtPptx)}

AllEmpty(args) == args.chapter = <<>> /\ args.title = <<>> /\ args.contents = <<>>

Call(op, args, pre, result) == [op |-> op, args |-> args, pre |-> pre, result |-> result]

NoArgs == [none |-> TRUE]

\* -------------------------------------------------------------------- Init
\* the module's globals after import: no document, and the registry of the
\* start-up scan (lines 75-76, 99, 1226-1231)
Init ==
    /\ fs = [dirs |-> Locations, files |-> StartupFiles, unreadable |-> {}]
    /\ current_presentation = None
    /\ current_filename = NoFilename
    /\ \E rev \in BOOLEAN : template_registry = discover_templates(EmptyRegistry, fs, rev)
    /\ last = Call("startup", NoArgs, None, [status |-> "started"])
    /\ dup_calls = 0

\* a session in which a template has just been opened: the state that
\* clone_template_and_update(template_name) with no replacement text leaves,
\* on a disk that holds every template
InitOpened ==
    /\ fs = [dirs |-> Locations, files |-> FileUniverse, unreadable |-> {}]
    /\ \E rev \in BOOLEAN : template_registry = discover_templates(EmptyRegistry, fs, rev)
    /\ \E template_name \in DOMAIN template_registry :
        LET loaded == load_template_presentation(template_registry, fs, template_name)
        IN /\ loaded # None
           /\ current_presentation = loaded
           /\ current_filename = template_name \o StrUpdated \o Timestamp \o ExtPptx
           /\ last = Call("clone_template_and_update",
                          [template_name |-> template_name, chapter |-> <<>>,
                           title |-> <<>>, contents |-> <<>>, new_filename |-> <<>>],
                          loaded,
                          SmartResult(loaded.slides, <<>>, <<>>, <<>>, 0))
    /\ dup_calls = 0

\* ------------------------------------------------------------------- tools
\* scan_templates (lines 422-451)
scan_templates ==
    /\ UNCHANGED dup_calls
    /\ \E rev \in BOOLEAN :
        /\ template_registry' = discover_templates(template_registry, fs, rev)
        /\ last' = Call("scan_templates", NoArgs, None,
                        [status |-> IF ScanRaises(fs) THEN "error"
                                    ELSE IF DOMAIN template_registry' = {} THEN "none_found"
                                    ELSE "found",
                         count |-> Cardinality(DOMAIN template_registry'),
                         replaced |-> template_registry])
        /\ UNCHANGED <<current_presentation, current_filename, fs>>

\* clone_template_and_update (lines 817-869)
clone_template_and_update ==
    /\ UNCHANGED dup_calls
    /\ \E template_name \in TemplateNames, chapter \in ChapterValues,
       title \in TitleValues, contents \in ContentsValues,
       new_filename \in FilenameValues,
       rev \in (IF NeedsScan(template_registry) THEN BOOLEAN ELSE {FALSE}) :
        LET registry == IF NeedsScan(template_registry)
                        THEN discover_templates(template_registry, fs, rev)
                        ELSE template_registry
            args == [template_name |-> template_name, chapter |-> chapter,
                     title |-> title, contents |-> contents,
                     new_filename |-> new_filename]
            loaded == load_template_presentation(registry, fs, template_name)
        IN
        /\ template_registry' = registry
        /\ fs' = fs
        /\ IF NeedsScan(template_registry) /\ ScanRaises(fs)
           THEN /\ last' = Call("clone_template_and_update", args, None,
                                [status |-> "raised"])
                /\ UNCHANGED <<current_presentation, current_filename>>
           ELSE IF template_name \notin DOMAIN registry
           THEN /\ last' = Call("clone_template_and_update", args, None,
                                [status |-> "not_found"])
                /\ UNCHANGED <<current_presentation, current_filename>>
           ELSE IF loaded = None
           THEN /\ current_presentation' = None
                /\ last' = Call("clone_template_and_update", args, None,
                                [status |-> "load_failed"])
                /\ UNCHANGED current_filename
           ELSE \E fault \in FaultPoints(ShapeCount(loaded.slides)) :
                LET update_result ==
                        SmartResult(loaded.slides, chapter, title, contents, fault)
                IN
                /\ current_presentation' =
                       Opened(SmartDoc(loaded.slides, chapter, title, contents, fault))
                /\ last' = Call("clone_template_and_update", args, loaded, update_result)
                /\ current_filename' =
                       IF update_result.status # "success" THEN current_filename
                       ELSE IF new_filename # <<>>
                       THEN (IF EndsWith(new_filename, ExtPptx) THEN new_filename
                             ELSE new_filename \o ExtPptx)
                       ELSE template_name \o StrUpdated \o Timestamp \o ExtPptx

\* update_specific_slide_text (lines 871-926)
update_specific_slide_text ==
    /\ UNCHANGED dup_calls
    /\ \E chapter \in ChapterValues, title \in TitleValues, contents \in ContentsValues :
        IF current_presentation = None
        THEN /\ last' = Call("update_specific_slide_text",
                             [slide_number |-> 1, chapter |-> chapter,
                              title |-> title, contents |-> contents],
                             None, [status |-> "no_presentation"])
             /\ UNCHANGED <<current_presentation, current_filename, template_registry, fs>>
        ELSE \E slide_number \in 0..(Len(current_presentation.slides) + 1) :
             LET args == [slide_number |-> slide_number, chapter |-> chapter,
                          title |-> title, contents |-> contents]
             IN
             IF slide_number < 1 \/ slide_number > Len(current_presentation.slides)
             THEN /\ last' = Call("update_specific_slide_text", args,
                                  current_presentation,
                                  [status |-> "invalid",
                                   slides |-> Len(current_presentation.slides)])
                  /\ UNCHANGED <<current_presentation, current_filename,
                                 template_registry, fs>>
             ELSE \E fault \in FaultPoints(Len(current_presentation.slides[slide_number].shapes)) :
                  /\ current_presentation' =
                         Opened(SpecificDoc(current_presentation.slides, slide_number,
                                            chapter, title, contents, fault))
                  /\ last' = Call("update_specific_slide_text", args,
                                  current_presentation,
                                  SpecificResult(current_presentation.slides, slide_number,
                                                 chapter, title, contents, fault))
                  /\ UNCHANGED <<current_filename, template_registry, fs>>

\* duplicate_slide (lines 476-554)
duplicate_slide ==
    /\ dup_calls < MaxDupCalls
    /\ dup_calls' = dup_calls + 1
    /\ \E new_title \in TitleValues, new_content \in ContentsValues,
       new_chapter \in ChapterValues :
        IF current_presentation = None
        THEN /\ last' = Call("duplicate_slide",
                             [slide_number |-> 1, new_title |-> new_title,
                              new_content |-> new_content, new_chapter |-> new_chapter,
                              uncopyable |-> {}],
                             None, [status |-> "no_presentation"])
             /\ UNCHANGED <<current_presentation, current_filename, template_registry, fs>>
        ELSE \E slide_number \in 0..(Len(current_presentation.slides) + 1) :
                \E uncopyable \in
                     (IF ValidSlideNumber(current_presentation.slides, slide_number)
                      THEN UncopyableSets(SlideAt(current_presentation.slides, slide_number - 1))
                      ELSE {{}}) :
                /\ current_presentation' =
                       Opened(DupDoc(current_presentation.slides, slide_number,
                                     new_title, new_content, new_chapter, uncopyable))
                /\ last' = Call("duplicate_slide",
                                [slide_number |-> slide_number, new_title |-> new_title,
                                 new_content |-> new_content, new_chapter |-> new_chapter,
                                 uncopyable |-> uncopyable],
                                current_presentation,
                                DupResult(current_presentation.slides, slide_number,
                                          new_title, new_content, new_chapter, uncopyable))
                /\ UNCHANGED <<current_filename, template_registry, fs>>

\* duplicate_and_update_slides (lines 572-603)
duplicate_and_update_slides ==
    /\ dup_calls < MaxDupCalls
    /\ dup_calls' = dup_calls + 1
    /\ \E count \in 0..MaxCount, slide_data \in SlideDataValues :
        IF current_presentation = None
        THEN /\ last' = Call("duplicate_and_update_slides",
                             [count |-> count, slide_data |-> slide_data,
                              uncopyable |-> {}],
                             None, [status |-> "no_presentation"])
             /\ UNCHANGED <<current_presentation, current_filename, template_registry, fs>>
        ELSE \E uncopyable \in UncopyableSets(current_presentation.slides[1]) :
                LET calls == DupManyCalls(0, count, slide_data) IN
                /\ current_presentation' =
                       Opened(DupManyDoc(current_presentation.slides, calls, uncopyable))
                /\ last' = Call("duplicate_and_update_slides",
                                [count |-> count, slide_data |-> slide_data,
                                 uncopyable |-> uncopyable],
                                current_presentation,
                                [status |-> "done", calls |-> calls,
                                 results |-> DupManyResults(current_presentation.slides,
                                                            calls, uncopyable)])
                /\ UNCHANGED <<current_filename, template_registry, fs>>

\* list_available_templates (lines 453-470)
list_available_templates ==
    /\ UNCHANGED dup_calls
    /\ \E rev \in (IF NeedsScan(template_registry) THEN BOOLEAN ELSE {FALSE}) :
        LET scanned == NeedsScan(template_registry)
            registry == IF scanned THEN discover_templates(template_registry, fs, rev)
                        ELSE template_registry
        IN
        /\ template_registry' = registry
        /\ last' = Call("list_available_templates", NoArgs, None,
                        [status |-> IF scanned /\ ScanRaises(fs) THEN "raised"
                                    ELSE IF DOMAIN registry = {} THEN "none_available"
                                    ELSE "listed",
                         count |-> Cardinality(DOMAIN registry),
                         scanned |-> scanned])
        /\ UNCHANGED <<current_presentation, current_filename, fs>>

\* create_presentation_from_template (lines 928-963)
create_presentation_from_template ==
    /\ UNCHANGED dup_calls
    /\ \E template_name \in TemplateNames, presentation_title \in PresentationTitles,
       rev \in (IF NeedsScan(template_registry) THEN BOOLEAN ELSE {FALSE}) :
        LET scanned == NeedsScan(template_registry)
            registry == IF scanned THEN discover_templates(template_registry, fs, rev)
                        ELSE template_registry
            args == [template_name |-> template_name,
                     presentation_title |-> presentation_title]
            loaded == load_template_presentation(registry, fs, template_name)
        IN
        /\ template_registry' = registry
        /\ fs' = fs
        /\ IF scanned /\ ScanRaises(fs)
           THEN /\ last' = Call("create_presentation_from_template", args, None,
                                [status |-> "raised", scanned |-> scanned])
                /\ UNCHANGED <<current_presentation, current_filename>>
           ELSE IF template_name \notin DOMAIN registry
           THEN /\ last' = Call("create_presentation_from_template", args, None,
                                [status |-> "not_found", scanned |-> scanned])
                /\ UNCHANGED <<current_presentation, current_filename>>
           ELSE IF loaded = None
           THEN /\ current_presentation' = None
                /\ last' = Call("create_presentation_from_template", args, None,
                                [status |-> "load_failed", scanned |-> scanned])
                /\ UNCHANGED current_filename
           ELSE /\ current_presentation' = Opened(SetTitle(loaded.slides, presentation_title))
                /\ current_filename' = NoFilename
                /\ last' = Call("create_presentation_from_template", args, loaded,
                                [status |-> "created", scanned |-> scanned,
                                 slides |-> Len(loaded.slides)])

\* create_presentation (lines 1078-1095)
create_presentation ==
    /\ UNCHANGED dup_calls
    /\ \E title \in PresentationTitles :
        /\ current_presentation' = Opened(SetTitle(<<AddSlide("title_slide")>>, title))
        /\ current_filename' = NoFilename
        /\ last' = Call("create_presentation", [title |-> title], None,
                        [status |-> "created"])
        /\ UNCHANGED <<template_registry, fs>>

\* apply_color_theme (lines 680-719)
apply_color_theme ==
    /\ UNCHANGED dup_calls
    /\ \E color_palette \in Palettes :
        LET args == [color_palette |-> color_palette]
            main_color == parse_notion_color(Get(color_palette, "main", DefaultMain))
            accent_color == parse_notion_color(Get(color_palette, "accent", DefaultAccent))
        IN
        IF current_presentation = None
        THEN /\ last' = Call("apply_color_theme", args, None,
                             [status |-> "no_presentation"])
             /\ UNCHANGED <<current_presentation, current_filename, template_registry, fs>>
        ELSE IF main_color.status # "color" \/ accent_color.status # "color"
        THEN /\ last' = Call("apply_color_theme", args, current_presentation,
                             [status |-> "error"])
             /\ UNCHANGED <<current_presentation, current_filename, template_registry, fs>>
        ELSE /\ current_presentation' =
                    Opened(ThemeDoc(current_presentation.slides, main_color, accent_color))
             /\ last' = Call("apply_color_theme", args, current_presentation,
                             IF {"main", "accent"} \subseteq DOMAIN color_palette
                             THEN [status |-> "applied",
                                   count |-> ThemeCount(current_presentation.slides)]
                             ELSE [status |-> "error"])
             /\ UNCHANGED <<current_filename, template_registry, fs>>

\* ------------------------------------------------------------------ tables
\* a cell as add_table makes it: no text, no fill
EmptyCell == [text |-> <<>>, fill |-> NoColor, runs |-> <<>>]

\* the runs of a cell after cell.text = value, each with the colour, weight
\* and size the cell's branch gives (lines 659-662, 666-668)
CellRuns(value, color, bold, size) ==
    [j \in 1..Len(RunsOf(value)) |->
        [text |-> RunsOf(value)[j].text, color |-> color, bold |-> bold,
         size |-> size]]

\* a header cell (lines 653-662) and a regular cell (lines 663-668)
HeaderCell(value, style) ==
    [text |-> value, fill |-> parse_notion_color(style.colors.main),
     runs |-> CellRuns(value, RGBColor(255, 255, 255), TRUE,
                       Pt(style.fonts.caption.size))]

RegularCell(value, style) ==
    [text |-> value, fill |-> NoColor,
     runs |-> CellRuns(value, RGBColor(0, 0, 0), FALSE, Pt(style.fonts.body.size))]

\* the header cell at which parse_notion_color raised: its text is set and
\* its fill made solid, its colour and its runs are not
StoppedCell(value) ==
    [text |-> value, fill |-> [status |-> "solid"], runs |-> RunsOf(value)]

\* cell_matrix and header_matrix (lines 636-645): the last entry of
\* table_data['cells'] that names the position, if it is inside the table
EntryAt(table_data, r, c) ==
    LET hits == {k \in 1..Len(table_data.cells) :
                     table_data.cells[k].row = r /\ table_data.cells[k].col = c}
    IN IF hits = {} THEN [value |-> <<>>, is_header |-> FALSE]
       ELSE LET k == CHOOSE k \in hits : \A m \in hits : m <= k
            IN [value |-> table_data.cells[k].value,
                is_header |-> table_data.cells[k].is_header]

\* the place of cell (r, c) in the loop over rows and columns (lines 648-649)
CellRank(table_data, r, c) == (r - 1) * table_data.max_col + c

\* the first cell at which the styling raises: the first header cell, when
\* the style's main colour does not parse (line 656); 0 when none does
StopRank(table_data, style) ==
    LET failing == {CellRank(table_data, r, c) :
                       <<r, c>> \in {rc \in (1..table_data.max_row) \X (1..table_data.max_col) :
                           /\ EntryAt(table_data, rc[1], rc[2]).is_header
                           /\ parse_notion_color(style.colors.main).status # "color"}}
    IN IF failing = {} THEN 0
       ELSE CHOOSE k \in failing : \A m \in failing : k <= m

\* the table shape after lines 630-668
TableShape(table_data, style) ==
    LET stop == StopRank(table_data, style)
        Cell(r, c) ==
            LET entry == EntryAt(table_data, r, c)
                k == CellRank(table_data, r, c)
            IN IF stop # 0 /\ k > stop THEN EmptyCell
               ELSE IF stop # 0 /\ k = stop THEN StoppedCell(entry.value)
               ELSE IF entry.is_header THEN HeaderCell(entry.value, style)
               ELSE RegularCell(entry.value, style)
    IN [has_text_frame |-> FALSE, ph |-> "none", text |-> <<>>, fonts |-> <<>>,
        runs |-> <<>>,
        table |-> [r \in 1..table_data.max_row |->
                      [c \in 1..table_data.max_col |-> Cell(r, c)]]]

\* presentation.slides[slide_number - 1] raises IndexError (line 621)
NoSuchSlide(doc, slide_number) ==
    slide_number - 1 >= Len(doc) \/ slide_number - 1 < 0 - Len(doc)

\* the position, from 1, of the slide that slides[slide_number - 1] is
SlidePosition(doc, slide_number) ==
    IF slide_number - 1 >= 0 THEN slide_number ELSE Len(doc) + slide_number

\* insert_table_from_data on an open document (lines 617-678): the document
\* after
InsertTableDoc(doc, slide_number, table_data, style) ==
    IF slide_number > Len(doc) THEN doc
    ELSE IF NoSuchSlide(doc, slide_number) THEN doc
    ELSE [doc EXCEPT ![SlidePosition(doc, slide_number)].shapes =
             Append(@, TableShape(table_data, style))]

\* ... and the result it returns
InsertTableResult(doc, slide_number, table_data, style) ==
    IF slide_number > Len(doc)
    THEN [status |-> "not_exist", slide_number |-> slide_number]
    ELSE IF NoSuchSlide(doc, slide_number) THEN [status |-> "error"]
    ELSE IF StopRank(table_data, style) # 0 THEN [status |-> "error"]
    ELSE [status |-> "added", rows |-> table_data.max_row,
          cols |-> table_data.max_col, slide_number |-> slide_number]

\* the tables of a document
TableCount(doc) ==
    Cardinality({p \in Positions(doc) : "table" \in DOMAIN doc[p[1]].shapes[p[2]]})

ValHead == <<"H">>
ValCell == <<"x">>

\* the table data offered: one header cell; a header above a regular cell,
\* with an entry that lies outside the table
TableDataValues ==
    {[max_row |-> 1, max_col |-> 1,
      cells |-> <<[row |-> 1, col |-> 1, value |-> ValHead, is_header |-> TRUE]>>],
     [max_row |-> 2, max_col |-> 1,
      cells |-> <<[row |-> 1, col |-> 1, value |-> ValHead, is_header |-> TRUE],
                  [row |-> 2, col |-> 1, value |-> ValCell, is_header |-> FALSE],
                  [row |-> 3, col |-> 1, value |-> ValCell, is_header |-> FALSE]>>]}

\* ------------------------------------------------------ the Notion source
\* a dict with no key: what `{}` is, and what `not d` tests
EmptyDict == [keys |-> {}]

Falsy(d) == d.keys = {}

\* a page text as the patterns of the helpers read it: the basic settings
\* section and the items found in it, the style guide section and the
\* colours found in it, and whether a link to the slide configuration and
\* to the table data database follows the heading
NoSection == [present |-> FALSE, items |-> EmptyDict]

NoText == [basic |-> NoSection, style |-> NoSection,
           slide_db |-> FALSE, table_db |-> FALSE]

StrNewPresentation ==
    <<"N","e","w"," ","P","r","e","s","e","n","t","a","t","i","o","n">>
StrSampleTemplate ==
    <<"S","a","m","p","l","e","_","T","e","m","p","l","a","t","e">>
StrAutoGenerated ==
    <<"_","a","u","t","o","_","g","e","n","e","r","a","t","e","d">>
DefaultBackground == <<"#","F","8","F","A","F","C">>

UrlPlain == "https://www.notion.so/plain"
UrlProject == "https://www.notion.so/project"
NotionUrls == {UrlPlain, UrlProject}

\* a connector that answers: one page without any of the sections, one page
\* with the basic settings of a project, a style guide and both links
fetch_notion_page_Live(notion_url) ==
    IF notion_url = UrlPlain
    THEN [keys |-> {"text"}, text |-> NoText]
    ELSE [keys |-> {"text"},
          text |-> [basic |-> [present |-> TRUE,
                               items |-> [keys |-> {"project_name", "template"},
                                          project_name |-> ValOverview,
                                          template |-> NameSample]],
                    style |-> [present |-> TRUE,
                               items |-> [keys |-> {"accent"},
                                          accent |-> DefaultMain]],
                    slide_db |-> TRUE, table_db |-> TRUE]]

\* fetch_notion_page (lines 189-196)
fetch_notion_page(notion_url) == EmptyDict

\* search_notion_database (lines 198-205): no rows
search_notion_database(query, database_url) == <<>>

\* page_content.get('text', '')
TextOf(page_content) ==
    IF "text" \in page_content.keys THEN page_content.text ELSE NoText

\* d.get(key, default) on a dict of the helpers
DictGet(d, key, default) == IF key \in d.keys THEN d[key] ELSE default

\* extract_basic_settings (lines 207-245)
extract_basic_settings(notion_content) ==
    IF ~notion_content.basic.present THEN EmptyDict
    ELSE notion_content.basic.items

\* extract_slide_configurations (lines 247-272)
extract_slide_configurations(notion_url) ==
    LET page_content == fetch_notion_page(notion_url) IN
    IF Falsy(page_content) THEN <<>>
    ELSE IF TextOf(page_content).slide_db
    THEN search_notion_database("", "collection")
    ELSE <<>>

\* extract_table_data (lines 274-299)
extract_table_data(notion_url) ==
    LET page_content == fetch_notion_page(notion_url) IN
    IF Falsy(page_content) THEN <<>>
    ELSE IF TextOf(page_content).table_db
    THEN search_notion_database("", "collection")
    ELSE <<>>

\* get_default_style_guide (lines 321-338); the layout's lengths in
\* hundredths of an inch
get_default_style_guide ==
    [colors |-> [main |-> DefaultMain, accent |-> DefaultAccent,
                 background |-> DefaultBackground],
     fonts |-> [title |-> [size |-> 24, bold |-> TRUE],
                body |-> [size |-> 14, bold |-> FALSE],
                caption |-> [size |-> 12, bold |-> FALSE]],
     layout |-> [margin |-> 79, spacing |-> 39]]

\* parse_style_guide_content (lines 340-371): the colours found replace the
\* default ones
parse_style_guide_content(content) ==
    [get_default_style_guide EXCEPT
        !.colors = [key \in {"main", "accent", "background"} |->
                       DictGet(content, key, get_default_style_guide.colors[key])]]

\* extract_style_guide (lines 301-319)
extract_style_guide(notion_url) ==
    LET page_content == fetch_notion_page(notion_url) IN
    IF Falsy(page_content) THEN get_default_style_guide
    ELSE IF ~TextOf(page_content).style.present THEN get_default_style_guide
    ELSE parse_style_guide_content(TextOf(page_content).style.items)

\* auto_generate_from_notion_url (lines 721-811).  Steps 4 and 5 loop over
\* the rows extract_slide_configurations and extract_table_data return,
\* which are the rows of search_notion_database: there are none, so the
\* loops have no pass and the document goes from step 3 to step 6 as it is.
auto_generate_from_notion_url ==
    /\ UNCHANGED <<dup_calls, fs>>
    /\ \E notion_url \in NotionUrls,
          rev \in (IF NeedsScan(template_registry) THEN BOOLEAN ELSE {FALSE}) :
        LET args == [notion_url |-> notion_url]
            page_content == fetch_notion_page(notion_url)
            basic_settings == extract_basic_settings(TextOf(page_content))
            style_guide == extract_style_guide(notion_url)
            template_name == DictGet(basic_settings, "template", StrSampleTemplate)
            project_name == DictGet(basic_settings, "project_name", StrNewPresentation)
            scanned == NeedsScan(template_registry)
            registry == IF scanned THEN discover_templates(template_registry, fs, rev)
                        ELSE template_registry
            loaded == load_template_presentation(registry, fs, template_name)
            slide_configs == extract_slide_configurations(notion_url)
            table_data_raw == extract_table_data(notion_url)
            main_color == parse_notion_color(style_guide.colors.main)
            accent_color == parse_notion_color(style_guide.colors.accent)
            created == SetTitle(loaded.slides, project_name)
            themed == IF main_color.status = "color" /\ accent_color.status = "color"
                      THEN ThemeDoc(created, main_color, accent_color)
                      ELSE created
            filename == project_name \o StrAutoGenerated
            Failure(step) == Call("auto_generate_from_notion_url", args,
                                  current_presentation,
                                  [status |-> "failure", step |-> step])
        IN
        IF Falsy(page_content)
        THEN /\ last' = Failure("fetch")
             /\ UNCHANGED <<current_presentation, current_filename, template_registry>>
        ELSE IF Falsy(basic_settings)
        THEN /\ last' = Failure("basic_settings")
             /\ UNCHANGED <<current_presentation, current_filename, template_registry>>
        ELSE IF scanned /\ ScanRaises(fs)
        THEN /\ template_registry' = registry
             /\ last' = Failure("error")
             /\ UNCHANGED <<current_presentation, current_filename>>
        ELSE IF template_name \notin DOMAIN registry
        THEN /\ template_registry' = registry
             /\ last' = Failure("template")
             /\ UNCHANGED <<current_presentation, current_filename>>
        ELSE IF loaded = None
        THEN /\ template_registry' = registry
             /\ current_presentation' = None
             /\ last' = Call("auto_generate_from_notion_url", args,
                             current_presentation,
                             [status |-> "completed", saved |-> FALSE,
                              rows |-> Len(slide_configs) + Len(table_data_raw)])
             /\ UNCHANGED current_filename
        ELSE /\ template_registry' = registry
             /\ current_presentation' = Opened(themed)
             /\ current_filename' = filename \o ExtPptx
             /\ last' = Call("auto_generate_from_notion_url", args,
                             current_presentation,
                             [status |-> "completed", saved |-> TRUE,
                              rows |-> Len(slide_configs) + Len(table_data_raw)])

\* get_slide_config_by_number (lines 1175-1193)
get_slide_config_by_number ==
    /\ \E notion_url \in NotionUrls, slide_number \in 1..2 :
        LET slide_configs == extract_slide_configurations(notion_url)
            found == {i \in 1..Len(slide_configs) :
                          DictGet(slide_configs[i], "Slide", 0) = slide_number}
        IN last' = Call("get_slide_config_by_number",
                        [notion_url |-> notion_url, slide_number |-> slide_number],
                        current_presentation,
                        [status |-> IF found = {} THEN "not_found" ELSE "found"])
    /\ UNCHANGED <<current_presentation, current_filename, template_registry, fs,
                   dup_calls>>

\* get_table_data_by_slide (lines 1195-1223)
get_table_data_by_slide ==
    /\ \E notion_url \in NotionUrls, slide_number \in 1..2 :
        LET table_data == extract_table_data(notion_url)
            slide_tables == {i \in 1..Len(table_data) :
                                 DictGet(table_data[i], "Parent_Slide", 0) = slide_number}
        IN last' = Call("get_table_data_by_slide",
                        [notion_url |-> notion_url, slide_number |-> slide_number],
                        current_presentation,
                        [status |-> IF slide_tables = {} THEN "not_found" ELSE "found"])
    /\ UNCHANGED <<current_presentation, current_filename, template_registry, fs,
                   dup_calls>>

\* the styles offered: the default one, and one whose main colour does not
\* parse
TableStyles ==
    {get_default_style_guide,
     [get_default_style_guide EXCEPT !.colors.main = <<"#","1","E","3","A">>]}

\* insert_table_from_data (lines 609-678); a deck takes MaxTables tables
insert_table_from_data ==
    /\ UNCHANGED dup_calls
    /\ \E table_data \in TableDataValues, style \in TableStyles :
        IF current_presentation = None
        THEN /\ last' = Call("insert_table_from_data",
                             [slide_number |-> 1, table_data |-> table_data,
                              style |-> style],
                             None, [status |-> "no_presentation"])
             /\ UNCHANGED <<current_presentation, current_filename, template_registry, fs>>
        ELSE /\ TableCount(current_presentation.slides) < MaxTables
             /\ \E slide_number \in (0 - 1)..(Len(current_presentation.slides) + 1) :
                /\ current_presentation' =
                       Opened(InsertTableDoc(current_presentation.slides, slide_number,
                                             table_data, style))
                /\ last' = Call("insert_table_from_data",
                                [slide_number |-> slide_number,
                                 table_data |-> table_data, style |-> style],
                                current_presentation,
                                InsertTableResult(current_presentation.slides,
                                                  slide_number, table_data, style))
                /\ UNCHANGED <<current_filename, template_registry, fs>>

\* ------------------------------------------------------------- environment
\* a template file appears in an existing search directory
AddFile ==
    /\ UNCHANGED dup_calls
    /\ \E f \in FileUniverse \ fs.files :
        /\ f.location \in fs.dirs
        /\ fs' = [fs EXCEPT !.files = @ \cup {f}]
        /\ last' = Call("fs", [file |-> f], None, [status |-> "added"])
        /\ UNCHANGED <<current_presentation, current_filename, template_registry>>

\* a file is deleted
RemoveFile ==
    /\ UNCHANGED dup_calls
    /\ \E f \in fs.files :
        /\ fs' = [fs EXCEPT !.files = @ \ {f}]
        /\ last' = Call("fs", [file |-> f], None, [status |-> "removed"])
        /\ UNCHANGED <<current_presentation, current_filename, template_registry>>

\* a search directory is created, empty
MakeDir ==
    /\ UNCHANGED dup_calls
    /\ \E d \in Locations \ fs.dirs :
        /\ fs' = [fs EXCEPT !.dirs = @ \cup {d}]
        /\ last' = Call("fs", [dir |-> d], None, [status |-> "mkdir"])
        /\ UNCHANGED <<current_presentation, current_filename, template_registry>>

\* an empty search directory is removed
RemoveDir ==
    /\ UNCHANGED dup_calls
    /\ \E d \in fs.dirs :
        /\ \A f \in fs.files : f.location # d
        /\ fs' = [fs EXCEPT !.dirs = @ \ {d}]
        /\ last' = Call("fs", [dir |-> d], None, [status |-> "rmdir"])
        /\ UNCHANGED <<current_presentation, current_filename, template_registry>>

\* ---------------------------------------------------------- specifications
\* the document tools, on the disk as it is at start-up
Next ==
    \/ scan_templates
    \/ clone_template_and_update
    \/ update_specific_slide_text

Spec == Init /\ [][Next]_vars

\* the registry under a changing disk
NextRegistry ==
    \/ scan_templates
    \/ AddFile
    \/ RemoveFile
    \/ MakeDir
    \/ RemoveDir

SpecRegistry == Init /\ [][NextRegistry]_vars

\* the duplication tools on a freshly opened template
NextDuplicate ==
    \/ duplicate_slide
    \/ duplicate_and_update_slides

SpecDuplicate == InitOpened /\ [][NextDuplicate]_vars

\* a search directory becomes unreadable to the process
DenyDir ==
    /\ UNCHANGED dup_calls
    /\ \E d \in Locations \ fs.unreadable :
        /\ fs' = [fs EXCEPT !.unreadable = @ \cup {d}]
        /\ last' = Call("fs", [dir |-> d], None, [status |-> "denied"])
        /\ UNCHANGED <<current_presentation, current_filename, template_registry>>

\* it becomes readable again
AllowDir ==
    /\ UNCHANGED dup_calls
    /\ \E d \in fs.unreadable :
        /\ fs' = [fs EXCEPT !.unreadable = @ \ {d}]
        /\ last' = Call("fs", [dir |-> d], None, [status |-> "allowed"])
        /\ UNCHANGED <<current_presentation, current_filename, template_registry>>

\* a clone_template_and_update call that gives no replacement text
PlainClone == clone_template_and_update /\ AllEmpty(last'.args)

\* the server started on a machine that has the search directories and no
\* template in them: the start-up scan found nothing
InitBare ==
    /\ fs = [dirs |-> Locations, files |-> {}, unreadable |-> {}]
    /\ current_presentation = None
    /\ current_filename = NoFilename
    /\ template_registry = discover_templates(EmptyRegistry, fs, FALSE)
    /\ last = Call("startup", NoArgs, None, [status |-> "started"])
    /\ dup_calls = 0

\* the files that come and go while names are resolved: a template that
\* opens, one that does not, and one with a title placeholder
LookupFiles ==
    {File("common_templates", NameSample, ExtPptx),
     File("desktop_templates", NameBroken, ExtPptx),
     File("desktop_templates", NameMixed, ExtPptx)}

\* the tools that resolve template names, over a disk whose files change
NextLookup ==
    \/ scan_templates
    \/ list_available_templates
    \/ create_presentation_from_template
    \/ PlainClone
    \/ (AddFile /\ last'.args.file \in LookupFiles)
    \/ (RemoveFile /\ last'.args.file \in LookupFiles)

SpecLookup == InitBare /\ [][NextLookup]_vars

\* a colour string arrives
InitColor ==
    /\ fs = [dirs |-> Locations, files |-> {}, unreadable |-> {}]
    /\ current_presentation = None
    /\ current_filename = NoFilename
    /\ template_registry = EmptyRegistry
    /\ dup_calls = 0
    /\ \E color_str \in ColorStrings :
        last = Call("color_str", [color_str |-> color_str], None, [status |-> "given"])

\* parse_notion_color applied to it
ParseColor ==
    /\ last.op = "color_str"
    /\ last' = Call("parse_notion_color", last.args, None,
                    parse_notion_color(last.args.color_str))
    /\ UNCHANGED <<current_presentation, current_filename, template_registry, fs,
                   dup_calls>>

NextColor == ParseColor

SpecColor == InitColor /\ [][NextColor]_vars

\* the search directory whose permissions change while the tools run, and
\* the template files that appear meanwhile
FaultDirs == {"desktop_templates"}

FaultFiles ==
    {File("common_templates", NameSample, ExtPptx),
     File("desktop_templates", NameMixed, ExtPptx)}

\* the tools over a disk whose directories may refuse to be read
NextFaults ==
    \/ list_available_templates
    \/ PlainClone
    \/ create_presentation_from_template
    \/ (AddFile /\ last'.args.file \in FaultFiles)
    \/ (DenyDir /\ last'.args.dir \in FaultDirs)
    \/ AllowDir

SpecFaults == InitBare /\ [][NextFaults]_vars

\* the tools that put a document into the slot, and one that changes the
\* document in it
NextSession ==
    \/ create_presentation
    \/ create_presentation_from_template
    \/ PlainClone
    \/ update_specific_slide_text

SpecSession == Init /\ [][NextSession]_vars

\* a session in which a deck has just been made from a template, on a disk
\* that also holds the themed deck's template
InitTheme ==
    /\ fs = [dirs |-> Locations,
             files |-> StartupFiles \cup {ThemeFile},
             unreadable |-> {}]
    /\ template_registry = discover_templates(EmptyRegistry, fs, FALSE)
    /\ \E template_name \in {NameTheme, NameMixed} :
        LET loaded == load_template_presentation(template_registry, fs, template_name)
        IN /\ current_presentation = Opened(SetTitle(loaded.slides, ValOverview))
           /\ last = Call("create_presentation_from_template",
                          [template_name |-> template_name,
                           presentation_title |-> ValOverview],
                          loaded,
                          [status |-> "created", scanned |-> FALSE,
                           slides |-> Len(loaded.slides)])
    /\ current_filename = NoFilename
    /\ dup_calls = 0

\* theming a deck, between rewrites of its slides
NextTheme ==
    \/ apply_color_theme
    \/ update_specific_slide_text

SpecTheme == InitTheme /\ [][NextTheme]_vars

\* a session with the Notion tools among the tools that open documents
NextNotion ==
    \/ auto_generate_from_notion_url
    \/ get_slide_config_by_number
    \/ get_table_data_by_slide
    \/ create_presentation_from_template
    \/ PlainClone

SpecNotion == Init /\ [][NextNotion]_vars

\* tables put into a freshly opened template, between rewrites of its slides
NextTable ==
    \/ insert_table_from_data
    \/ update_specific_slide_text

SpecTable == InitOpened /\ [][NextTable]_vars

(***************************************************************************)
(* The claims.  What the specification calls a shape's classification is   *)
(* stated here on its own, from the specification's words, so that the     *)
(* claims compare it with what the tools do.                               *)
(***************************************************************************)
\* the PlaceholderKind of a text: the first of Chapter, Title, Contents whose
\* keyword the lower-cased, trimmed text contains
Kind(text) ==
    LET t == lower(strip(text)) IN
    IF Contains(t, KwChapter) \/ Contains(t, KwChap) THEN "Chapter"
    ELSE IF Contains(t, KwTitle) THEN "Title"
    ELSE IF Contains(t, KwContents) \/ Contains(t, KwContent) THEN "Contents"
    ELSE "Unclassified"

\* the replacement value a call supplies for a kind
ValueOf(kind, args) ==
    IF kind = "Chapter" THEN args.chapter
    ELSE IF kind = "Title" THEN args.title
    ELSE IF kind = "Contents" THEN args.contents
    ELSE <<>>

\* the point size of a kind
PointsOf(kind) == IF kind = "Chapter" THEN 18 ELSE IF kind = "Title" THEN 24 ELSE 14

\* a shape rewritten as its kind asks: the value as text, every paragraph in
\* the kind's size
RewrittenAs(shape, kind, value) ==
    /\ shape.text = value
    /\ \A i \in 1..Len(shape.fonts) : shape.fonts[i].size = PointsOf(kind) * 12700

\* the last call walked shapes of a document: the whole-document substitution
\* of clone_template_and_update, or update_specific_slide_text on a slide
WholeWalk == last.op = "clone_template_and_update" /\ last.pre # None

SlideWalk ==
    /\ last.op = "update_specific_slide_text"
    /\ last.result.status \in {"updated", "error"}

\* the shape positions that walk went over
Walked ==
    IF WholeWalk THEN Positions(last.pre.slides)
    ELSE IF SlideWalk
    THEN {<<last.args.slide_number, i>> :
             i \in 1..Len(last.pre.slides[last.args.slide_number].shapes)}
    ELSE {}

Before(p) == last.pre.slides[p[1]].shapes[p[2]]
After(p)  == current_presentation.slides[p[1]].shapes[p[2]]

\* C1: in both substitution operations a text shape whose lower-cased text
\* holds a chapter keyword and "title" is treated as Chapter, never as
\* Title: it is left alone or rewritten with the chapter value at 18pt
C1_BothKeywordsIsChapter ==
    \A p \in Walked :
        LET t == lower(Before(p).text) IN
        (/\ Before(p).has_text_frame
         /\ Contains(t, KwChapter) \/ Contains(t, KwChap)
         /\ Contains(t, KwTitle))
        => /\ \/ After(p) = Before(p)
              \/ last.args.chapter # <<>> /\ RewrittenAs(After(p), "Chapter", last.args.chapter)
           /\ ~(After(p) # Before(p) /\ After(p).text = last.args.title)
           /\ \A i \in 1..Len(After(p).fonts) :
                  After(p).fonts[i].size = 24 * 12700 => After(p) = Before(p)

\* C2: a shape that is Unclassified, or whose own classification has an
\* empty replacement value, keeps its text and fonts, whatever the other two
\* values are
C2_UnmatchedShapeKept ==
    \A p \in Walked :
        (\/ ~Before(p).has_text_frame
         \/ ValueOf(Kind(Before(p).text), last.args) = <<>>)
        => After(p) = Before(p)

\* C3: a substitution called with chapter, title and contents all empty
\* leaves every shape of every slide as it was and reports 0 modified
C3_EmptyCallChangesNothing ==
    ((WholeWalk \/ SlideWalk) /\ AllEmpty(last.args))
    => /\ current_presentation = last.pre
       /\ WholeWalk => last.result.modified_count = 0
       /\ (SlideWalk /\ last.result.status = "updated") => last.result.modified_count = 0

\* C3's case: an all-empty call walked a slide that holds a placeholder
C3_Witness ==
    /\ SlideWalk
    /\ AllEmpty(last.args)
    /\ last.result.status = "updated"
    /\ \E p \in Walked :
           Before(p).has_text_frame /\ Kind(Before(p).text) # "Unclassified"

\* the shapes whose classification has a non-empty replacement value
Matched ==
    {p \in Walked : /\ Before(p).has_text_frame
                    /\ ValueOf(Kind(Before(p).text), last.args) # <<>>}

\* C4: after a successful whole-document substitution the modified count is
\* the number of text shapes whose classification has a non-empty value, and
\* each of them holds that value, every paragraph in the size of its kind
C4_CountAndRewrite ==
    (WholeWalk /\ last.result.status = "success")
    => /\ last.result.modified_count = Cardinality(Matched)
       /\ \A p \in Matched :
              RewrittenAs(After(p), Kind(Before(p).text),
                          ValueOf(Kind(Before(p).text), last.args))

\* C4's example: "Chapter X", "Title Here", "Contents Here" with chapter
\* "Intro", title "Overview" and no contents
C4_Witness ==
    /\ WholeWalk
    /\ last.pre = Opened(SampleDoc)
    /\ last.args.chapter = ValIntro
    /\ last.args.title = ValOverview
    /\ last.args.contents = <<>>
    /\ last.result.status = "success"
    /\ last.result.modified_count = 2
    /\ After(<<1, 1>>).text = ValIntro
    /\ After(<<1, 1>>).fonts = <<[name |-> "Pretendard", size |-> 18 * 12700]>>
    /\ After(<<1, 2>>).text = ValOverview
    /\ After(<<1, 2>>).fonts = <<[name |-> "Pretendard", size |-> 24 * 12700]>>
    /\ After(<<1, 3>>) = TextBox(TxtContentsHere)

\* the last call was a duplicate_slide that made a slide
Duplicated == last.op = "duplicate_slide" /\ last.result.status = "duplicated"

SourceSlide == last.pre.slides[last.args.slide_number]

NewSlide == current_presentation.slides[Len(current_presentation.slides)]

\* C5: after duplicate_slide succeeds the deck has one slide more, and the
\* new slide holds as many shapes as the source slide, less the shapes that
\* could not be copied
C5_NewSlideHoldsTheCopies ==
    Duplicated
    => /\ Len(current_presentation.slides) = Len(last.pre.slides) + 1
       /\ Len(NewSlide.shapes) =
              Len(SourceSlide.shapes) - Cardinality(last.args.uncopyable)

\* C6: duplicate_slide with a source index of 0 or below, or slideCount + 1
\* or above, fails with the range 1..slideCount and changes no slide
C6_OutOfRangeRejected ==
    (/\ last.op = "duplicate_slide"
     /\ last.pre # None
     /\ \/ last.args.slide_number <= 0
        \/ last.args.slide_number >= Len(last.pre.slides) + 1)
    => /\ last.result.status = "invalid"
       /\ last.result.low = 1
       /\ last.result.high = Len(last.pre.slides)
       /\ current_presentation = last.pre

\* C6's case: slideCount + 1 was asked for
C6_Witness ==
    /\ last.op = "duplicate_slide"
    /\ last.pre # None
    /\ last.args.slide_number = Len(last.pre.slides) + 1
    /\ last.result.status = "invalid"

\* the new slide as the copy loop left it, before the re-classification
NewSlideCopied ==
    CopyShapes(SourceSlide, AddSlide(SourceSlide.layout), last.args.uncopyable)

\* C7: in duplicate_slide's re-classification a shape without a chapter
\* keyword is Title if its text holds "title" or is shorter than 50, and
\* Contents if it holds "content" or is 50 characters or longer: with a
\* non-empty content value a keyword-free text of exactly 50 characters is
\* overwritten with it
C7_LengthFallback ==
    Duplicated
    => \A i \in 1..Len(NewSlideCopied.shapes) :
        LET before == NewSlideCopied.shapes[i]
            after == NewSlide.shapes[i]
            t == lower(before.text)
            titleLike == Contains(t, KwTitle) \/ Len(t) < 50
            contentLike == Contains(t, KwContent) \/ Len(t) >= 50
        IN (/\ before.has_text_frame
            /\ ~Contains(t, KwChapter)
            /\ ~Contains(t, KwChap))
           => /\ (titleLike /\ last.args.new_title # <<>>)
                 => RewrittenAs(after, "Title", last.args.new_title)
              /\ (~titleLike /\ contentLike /\ last.args.new_content # <<>>)
                 => RewrittenAs(after, "Contents", last.args.new_content)

\* the last call was a duplicate_and_update_slides on an open document
DuplicatedMany ==
    last.op = "duplicate_and_update_slides" /\ last.result.status = "done"

\* the field of the entry at position p, if the list has one that gives it
Supplied(p, key) ==
    /\ p <= Len(last.args.slide_data)
    /\ key \in DOMAIN last.args.slide_data[p]

\* C8 as claimed: duplicate_slide is invoked once per entry of the list,
\* always against slide 1, a missing field of the entry at position p
\* defaulting to a placeholder that contains p
C8_OncePerEntry ==
    DuplicatedMany
    => /\ Len(last.result.calls) = Len(last.args.slide_data)
       /\ \A p \in 1..Len(last.result.calls) :
            LET c == last.result.calls[p] IN
            /\ c.slide_number = 1
            /\ ~Supplied(p, "title")   => Contains(c.new_title, IntToStr(p))
            /\ ~Supplied(p, "content") => Contains(c.new_content, IntToStr(p))
            /\ ~Supplied(p, "chapter") => Contains(c.new_chapter, IntToStr(p))

\* C8 as the code has it: duplicate_slide is invoked count times, whatever
\* the length of the list, always against slide 1 and so never against a
\* slide made earlier in the call; the call at position p takes the fields
\* the p-th entry gives, and a field it does not give (every field, past the
\* end of the list) is a placeholder that contains p + 1
C8_OncePerCount ==
    DuplicatedMany
    => /\ Len(last.result.calls) = last.args.count
       /\ Len(last.result.results) = last.args.count
       /\ Len(current_presentation.slides) = Len(last.pre.slides) + last.args.count
       /\ \A p \in 1..Len(last.result.calls) :
            LET c == last.result.calls[p]
                r == last.result.results[p]
            IN
            /\ c.slide_number = 1
            /\ r.status = "duplicated" /\ r.slide_number = 1
            /\ r.slide_count = Len(last.pre.slides) + p
            /\ current_presentation.slides[Len(last.pre.slides) + p].layout
                   = last.pre.slides[1].layout
            /\ IF Supplied(p, "title")
               THEN c.new_title = last.args.slide_data[p].title
               ELSE Contains(c.new_title, IntToStr(p + 1))
            /\ IF Supplied(p, "content")
               THEN c.new_content = last.args.slide_data[p].content
               ELSE Contains(c.new_content, IntToStr(p + 1))
            /\ IF Supplied(p, "chapter")
               THEN c.new_chapter = last.args.slide_data[p].chapter
               ELSE Contains(c.new_chapter, IntToStr(p + 1))

\* C8's case: two slides asked for with a list of one entry that gives only
\* a title
C8_Witness ==
    /\ DuplicatedMany
    /\ last.args.count = 2
    /\ Len(last.args.slide_data) = 1
    /\ DOMAIN last.args.slide_data[1] = {"title"}
    /\ Len(last.result.calls) = 2

\* the names a scan of this disk finds: the stems of the .pptx and .potx
\* files in the search directories that exist
TemplateStems(disk) ==
    {f.stem : f \in {g \in disk.files : /\ g.location \in disk.dirs
                                        /\ g.extension \in {ExtPptx, ExtPotx}}}

\* C9: every scan rebuilds the registry from the disk as it is then, and
\* nothing but a scan changes the registry: its names are always those
\* that were on disk at the last scan
C9_RegistryRebuilt ==
    [][IF last'.op = "scan_templates"
       THEN DOMAIN template_registry' = TemplateStems(fs)
       ELSE template_registry' = template_registry]_vars

\* C9's case: a scan dropped a template that the scan before had found
C9_Witness ==
    /\ last.op = "scan_templates"
    /\ \E n \in DOMAIN last.result.replaced : n \notin DOMAIN template_registry

\* where a file comes in a scan: search directories in their configured
\* order, within a directory the .pptx files before the .potx files
DirIndex(location) == CHOOSE i \in 1..Len(TEMPLATE_PATHS) : TEMPLATE_PATHS[i] = location

VisitRank(f) == 2 * DirIndex(f.location) + (IF f.extension = ExtPotx THEN 1 ELSE 0)

\* the template files on disk with this stem
Sharing(disk, stem) ==
    {f \in disk.files : /\ f.stem = stem
                        /\ f.location \in disk.dirs
                        /\ f.extension \in {ExtPptx, ExtPotx}}

\* C10: after a scan a stem that several files share has one entry, that of
\* the file visited last, and the scan reports no error
C10_LastVisitedWins ==
    last.op = "scan_templates"
    => /\ last.result.status \in {"found", "none_found"}
       /\ \A n \in DOMAIN template_registry :
            LET d == template_registry[n] IN
            /\ d.name = n
            /\ d.path \in Sharing(fs, n)
            /\ d.location = d.path.location /\ d.extension = d.path.extension
            /\ \A f \in Sharing(fs, n) : VisitRank(f) <= VisitRank(d.path)

\* C10's case: a scan met one stem in two directories and, in one of them,
\* under both extensions
C10_Witness ==
    /\ last.op = "scan_templates"
    /\ \E f, g, h \in Sharing(fs, NameMixed) :
        /\ f.location = g.location /\ f.extension # g.extension
        /\ h.location # f.location

\* the tools that resolve a template name for their caller
LookupTools ==
    {"clone_template_and_update", "create_presentation_from_template",
     "list_available_templates"}

\* C11: a tool that resolves a template name leaves a non-empty registry as
\* it is, however stale, and rebuilds an empty one from the disk before it
\* looks the name up
C11_ScanOnlyWhenEmpty ==
    [][last'.op \in LookupTools
       => /\ IF DOMAIN template_registry = {}
             THEN DOMAIN template_registry' = TemplateStems(fs)
             ELSE template_registry' = template_registry
          /\ "scanned" \in DOMAIN last'.result
             => last'.result.scanned = (DOMAIN template_registry = {})]_vars

\* C11's case: a name was resolved against a registry that no longer agrees
\* with the disk, and a template now on disk was not found
C11_Witness ==
    /\ last.op = "create_presentation_from_template"
    /\ last.result.status = "not_found"
    /\ ~last.result.scanned
    /\ last.args.template_name \in TemplateStems(fs)
    /\ DOMAIN template_registry # {}

\* a string of exactly six hex digits, after one optional leading "#"
WellFormed(color_str) ==
    LET h == IF color_str # <<>> /\ Head(color_str) = "#" THEN Tail(color_str)
             ELSE color_str
    IN Len(h) = 6
       /\ \A i \in 1..6 : h[i] \in {"0","1","2","3","4","5","6","7","8","9",
                                    "a","b","c","d","e","f","A","B","C","D","E","F"}

\* a channel written as two upper-case hex digits
HexPair(v) ==
    LET D == <<"0","1","2","3","4","5","6","7","8","9","A","B","C","D","E","F">>
    IN <<D[(v \div 16) + 1], D[(v % 16) + 1]>>

Parsed == last.op = "parse_notion_color"

\* C12: a string of six hex digits, with or without a leading "#", decodes
\* to three channels in 0..255 whose hex encoding is the string again, case
\* aside; "#1E3A8A" decodes to (30, 58, 138)
C12_ColorRoundTrip ==
    (Parsed /\ WellFormed(last.args.color_str))
    => LET c == last.result
           h == IF Head(last.args.color_str) = "#" THEN Tail(last.args.color_str)
                ELSE last.args.color_str
       IN /\ c.status = "color"
          /\ \A v \in {c.r, c.g, c.b} : v \in 0..255
          /\ lower(HexPair(c.r) \o HexPair(c.g) \o HexPair(c.b)) = lower(h)
          /\ last.args.color_str = <<"#","1","E","3","A","8","A">>
             => c.r = 30 /\ c.g = 58 /\ c.b = 138

\* C12's case: "#1E3A8A" was decoded
C12_Witness ==
    /\ Parsed
    /\ last.args.color_str = <<"#","1","E","3","A","8","A">>
    /\ last.result = [status |-> "color", r |-> 30, g |-> 58, b |-> 138]

\* C13: a string that, after one optional leading "#", is not exactly six
\* characters long or holds a character that is no hex digit never yields
\* a colour
C13_MalformedRejected ==
    (Parsed /\ ~WellFormed(last.args.color_str)) => last.result.status # "color"

\* C14: no tool raises to its caller: whatever the document store or the
\* file system does, a call ends with a result value
C14_NoToolRaises == last.op \notin {"startup", "fs"} => last.result.status # "raised"

\* the whole-document walk of the last call was cut short by an exception
WalkFailed == WholeWalk /\ last.result.status = "failure"

\* C15: when the document store raises at a shape during the whole-document
\* walk, the call reports failure with a modified count of 0 and the
\* exception's message; the shapes visited before that shape are rewritten
\* as in a walk that succeeds and stay so, that shape and the ones after it
\* are as they were
C15_WalkStopsAtFault ==
    WalkFailed
    => /\ last.result.modified_count = 0
       /\ last.result.error_message \in STRING
       /\ Len(current_presentation.slides) = Len(last.pre.slides)
       /\ \E k \in 1..ShapeCount(last.pre.slides) :
            \A p \in Positions(last.pre.slides) :
                IF WalkIndex(last.pre.slides, p[1], p[2]) >= k
                THEN After(p) = Before(p)
                ELSE IF p \in Matched
                THEN RewrittenAs(After(p), Kind(Before(p).text),
                                 ValueOf(Kind(Before(p).text), last.args))
                ELSE After(p) = Before(p)

\* C15's case: the walk failed after it had rewritten a shape and before it
\* came to another it would have rewritten
C15_Witness ==
    /\ WalkFailed
    /\ \E p \in Matched : After(p) # Before(p)
    /\ \E q \in Matched : After(q) = Before(q)

\* C16: once a document is open the slot never goes back to empty: a call,
\* failed or not, leaves a document in it
C16_SlotNeverEmptied ==
    [][current_presentation # None => current_presentation' # None]_vars

\* the last call themed the open document and said so
Themed == last.op = "apply_color_theme" /\ last.result.status = "applied"

\* the colours the last call asked for, decoded
MainOf(args)   == parse_notion_color(args.color_palette.main)
AccentOf(args) == parse_notion_color(args.color_palette.accent)

\* the slides that expose a title shape with a text frame
TitledSlides(doc) ==
    {n \in 1..Len(doc) :
        \E i \in 1..Len(doc[n].shapes) :
            doc[n].shapes[i].ph = "title" /\ doc[n].shapes[i].has_text_frame}

\* the runs of the document, by slide, shape and run
RunPositions(doc) ==
    UNION {UNION {{<<n, i, j>> : j \in 1..Len(doc[n].shapes[i].runs)} :
                  i \in 1..Len(doc[n].shapes)} : n \in 1..Len(doc)}

RunBefore(q) == last.pre.slides[q[1]].shapes[q[2]].runs[q[3]]
RunAfter(q)  == current_presentation.slides[q[1]].shapes[q[2]].runs[q[3]]

HasChapter(text) == Contains(text, <<"C","h","a","p","t","e","r">>)

\* C17: apply_color_theme reports the number of slides that expose a title
\* shape with a text frame; a run that holds "Chapter", of a shape on any
\* slide, turns to the accent colour whether or not its slide is counted,
\* the other runs of a title turn to the main colour, and every other run,
\* one that holds lower-case "chapter" included, keeps colour and weight
C17_CountsTitleBranchOnly ==
    Themed
    => /\ last.result.count = Cardinality(TitledSlides(last.pre.slides))
       /\ RunPositions(current_presentation.slides) = RunPositions(last.pre.slides)
       /\ \A q \in RunPositions(last.pre.slides) :
            LET shape == last.pre.slides[q[1]].shapes[q[2]] IN
            IF HasChapter(RunBefore(q).text)
            THEN RunAfter(q) = [RunBefore(q) EXCEPT !.color = AccentOf(last.args),
                                                    !.bold = TRUE]
            ELSE IF shape.ph = "title"
            THEN RunAfter(q) = [RunBefore(q) EXCEPT !.color = MainOf(last.args),
                                                    !.bold = TRUE]
            ELSE RunAfter(q) = RunBefore(q)

\* C17's case: a theme coloured a chapter run on a slide without a title,
\* which it did not count, and passed over a lower-case "chapter"
C17_Witness ==
    /\ Themed
    /\ \E q \in RunPositions(last.pre.slides) :
        /\ q[1] \notin TitledSlides(last.pre.slides)
        /\ RunAfter(q) # RunBefore(q)
        /\ RunAfter(q).color = AccentOf(last.args)
    /\ \E q \in RunPositions(last.pre.slides) :
        /\ Contains(lower(RunBefore(q).text), KwChapter)
        /\ ~HasChapter(RunBefore(q).text)
        /\ RunAfter(q) = RunBefore(q)
    /\ last.result.count < Len(last.pre.slides)
    /\ last.result.count > 0

\* ---------------------------------------------------------------------- C18
\* C18: every call of auto_generate_from_notion_url ends in a failure at its
\* first step, the fetch, and leaves the current document, the current
\* filename and the registry as they were; for the page asked for,
\* extract_slide_configurations and extract_table_data return empty lists
\* and extract_style_guide returns the default style guide.
C18_AutoGenerateFailsAtFetch ==
    [][last'.op = "auto_generate_from_notion_url" =>
          /\ last'.result.status = "failure"
          /\ last'.result.step = "fetch"
          /\ current_presentation' = current_presentation
          /\ current_filename' = current_filename
          /\ template_registry' = template_registry
          /\ extract_slide_configurations(last'.args.notion_url) = <<>>
          /\ extract_table_data(last'.args.notion_url) = <<>>
          /\ extract_style_guide(last'.args.notion_url) = get_default_style_guide]_vars

\* the tool was called in a session that had a document and a filename to
\* lose
C18_Witness ==
    /\ last.op = "auto_generate_from_notion_url"
    /\ last.result.step = "fetch"
    /\ current_presentation # None
    /\ current_filename # NoFilename
    /\ last.pre = current_presentation

\* ---------------------------------------------------------------------- C19
\* a replacement value that holds none of the keywords, in any case
NoKeyword(value) ==
    ~AnyIn(lower(value), <<KwChapter, KwChap, KwTitle, KwContent>>)

KeywordFree(args) ==
    /\ args.chapter # <<>> => NoKeyword(args.chapter)
    /\ args.title # <<>> => NoKeyword(args.title)
    /\ args.contents # <<>> => NoKeyword(args.contents)

\* a step that is the second of two identical calls of the single-slide
\* substitution, both of which ran to their end
RepeatedUpdate ==
    /\ last.op = "update_specific_slide_text"
    /\ last'.op = "update_specific_slide_text"
    /\ last'.args = last.args
    /\ last.result.status = "updated"
    /\ last'.result.status = "updated"

\* a step that is a whole-document substitution which ran to its end
WholeUpdate ==
    /\ last'.op = "clone_template_and_update"
    /\ last'.result.status = "success"

\* C19: when no non-empty replacement value holds 'chapter', 'chap', 'title'
\* or 'content' in any case, a second identical substitution on the same
\* document reports a modified count of 0 and changes nothing: the second of
\* two identical single-slide calls, and a second whole-document pass over
\* the document the first pass left.
C19_RepeatChangesNothing ==
    [][/\ (RepeatedUpdate /\ KeywordFree(last'.args)) =>
              /\ last'.result.modified_count = 0
              /\ current_presentation' = current_presentation
       /\ (WholeUpdate /\ KeywordFree(last'.args)) =>
              /\ SmartResult(current_presentation'.slides, last'.args.chapter,
                             last'.args.title, last'.args.contents, 0).modified_count = 0
              /\ SmartDoc(current_presentation'.slides, last'.args.chapter,
                          last'.args.title, last'.args.contents, 0)
                     = current_presentation'.slides]_vars

\* a single-slide call with a title to put in has found nothing to rewrite
\* on a slide where a shape already holds that title in the font the
\* substitution gives
C19_Witness ==
    /\ last.op = "update_specific_slide_text"
    /\ last.result.status = "updated"
    /\ last.result.modified_count = 0
    /\ last.args.title # <<>>
    /\ last.pre = current_presentation
    /\ \E i \in 1..Len(current_presentation.slides[last.args.slide_number].shapes) :
          LET shape == current_presentation.slides[last.args.slide_number].shapes[i]
          IN /\ shape.text = last.args.title
             /\ shape.fonts = [p \in 1..ParagraphCount(shape.text) |->
                                  [name |-> "Pretendard", size |-> Pt(TitlePt)]]

\* ---------------------------------------------------------------------- C20
\* C20: duplicate_slide appends the new slide as the last slide and changes
\* no other: every slide the deck had, the source among them, is where it
\* was with the shapes, text and fonts it had, also when replacement text
\* was written into the copy.
C20_OnlyTheNewSlideChanges ==
    Duplicated
    => /\ Len(current_presentation.slides) = Len(last.pre.slides) + 1
       /\ SubSeq(current_presentation.slides, 1, Len(last.pre.slides)) = last.pre.slides
       /\ NewSlide.layout = SourceSlide.layout

\* a duplication that wrote replacement text into a copied shape, whose
\* source shape still holds the text these values would replace
C20_Witness ==
    /\ Duplicated
    /\ last.result.updated_elements > 0
    /\ \E i \in 1..Len(SourceSlide.shapes) :
          DupBranch(SourceSlide.shapes[i], last.args.new_title,
                    last.args.new_content, last.args.new_chapter) # 0
    /\ \E j \in 1..Len(NewSlide.shapes) :
          /\ NewSlide.shapes[j].text \in {last.args.new_title, last.args.new_content,
                                          last.args.new_chapter} \ {<<>>}
          /\ NewSlide.shapes[j].fonts # <<>>
          /\ NewSlide.shapes[j].fonts[1].name = "Pretendard"
    /\ current_presentation.slides[last.args.slide_number] = SourceSlide

\* ---------------------------------------------------------------------- C21
\* the last call was a substitution over an open document, ended or failed
Substituted ==
    \/ /\ last.op = "update_specific_slide_text"
       /\ last.result.status \in {"updated", "error"}
    \/ /\ last.op = "clone_template_and_update"
       /\ last.result.status \in {"success", "failure"}

SameStructure(before, after) ==
    /\ Len(after) = Len(before)
    /\ \A s \in 1..Len(before) : Len(after[s].shapes) = Len(before[s].shapes)

\* C21: after a substitution, successful or failed, the document has the
\* slides it had and every slide has as many shapes as it had; the
\* single-slide substitution on slide n leaves every shape of every other
\* slide as it was.
C21_StructureKept ==
    Substituted
    => /\ SameStructure(last.pre.slides, current_presentation.slides)
       /\ last.op = "update_specific_slide_text"
          => \A s \in 1..Len(last.pre.slides) :
                s # last.args.slide_number
                => current_presentation.slides[s].shapes = last.pre.slides[s].shapes

\* a single-slide substitution rewrote a shape of one slide of a deck whose
\* other slides hold shapes the same values would have rewritten
C21_Witness ==
    /\ last.op = "update_specific_slide_text"
    /\ last.result.status = "updated"
    /\ last.result.modified_count > 0
    /\ current_presentation # last.pre
    /\ \E s \in 1..Len(last.pre.slides) :
          /\ s # last.args.slide_number
          /\ \E i \in 1..Len(last.pre.slides[s].shapes) :
                SpecificBranch(last.pre.slides[s].shapes[i], last.args.chapter,
                               last.args.title, last.args.contents) # 0

\* ---------------------------------------------------------------------- C22
\* C22: in duplicate_slide's re-classification a copied shape whose text
\* holds "chapter" or "chap" is Chapter whatever values are supplied: with a
\* chapter value it is overwritten with that value, and with an empty
\* chapter value it is left as it was copied, never overwritten with the
\* title or the content value.
C22_ChapterCopyIsChapter ==
    Duplicated
    => \A i \in 1..Len(NewSlideCopied.shapes) :
        LET before == NewSlideCopied.shapes[i]
            after == NewSlide.shapes[i]
            t == lower(before.text)
        IN (/\ before.has_text_frame
            /\ Contains(t, KwChapter) \/ Contains(t, KwChap))
           => IF last.args.new_chapter # <<>>
              THEN RewrittenAs(after, "Chapter", last.args.new_chapter)
              ELSE after = before

\* ---------------------------------------------------------------------- C23
\* C23: when apply_color_theme returns an error on an open document, no run
\* of the document has another colour or weight than before the call.
C23_ErrorMeansNothingRecolored ==
    (/\ last.op = "apply_color_theme"
     /\ last.result.status = "error")
    => /\ RunPositions(current_presentation.slides) = RunPositions(last.pre.slides)
       /\ \A q \in RunPositions(last.pre.slides) :
            /\ RunAfter(q).color = RunBefore(q).color
            /\ RunAfter(q).bold = RunBefore(q).bold

\* ---------------------------------------------------------------------- C24
\* C24: insert_table_from_data with a slide_number of 0 or below, or above
\* the slide count, returns a failure and adds no shape to any slide.
C24_TableOnlyInRange ==
    (/\ last.op = "insert_table_from_data"
     /\ last.pre # None
     /\ \/ last.args.slide_number <= 0
        \/ last.args.slide_number > Len(last.pre.slides))
    => /\ last.result.status \in {"not_exist", "error"}
       /\ SameStructure(last.pre.slides, current_presentation.slides)

====
